---- MODULE Spec2Model ----
(***************************************************************************)
(* Artifact registration ledger (.ddb/tools/register_sst.py) and the       *)
(* lifecycle resume guard (.sst/tools/lifecycle_guard.py).                  *)
(*                                                                         *)
(* Strings that the code only compares for equality are kept as strings.   *)
(* Strings that the code orders (the sort key of upsert_entries) are given *)
(* their rank in Python's string order.  SHA-256 is modelled as an         *)
(* injective function whose order is unrelated to the order of its input.  *)
(***************************************************************************)
EXTENDS Integers, Sequences, FiniteSets, Bags, TLC

(* ------------------------------ bounds -------------------------------- *)

\* the registry never holds more than MaxEntries entries in a checked run
MaxEntries == 3
\* number of distinct artifact contents (content hashes) per slot
NumHashes == 2
\* the lifecycle index reports at most MaxOrphans orphan snapshots
MaxOrphans == 1
\* the guard is evaluated on ledgers of at most MaxContractEntries entries
MaxContractEntries == 2
\* text documents hold at most MaxTextLen characters
MaxTextLen == 3

(* --------------------------- value domains ---------------------------- *)

REQUIRED_SCOPE_KEYS == {"od_pair", "graph_id", "run_id", "lifecycle_id"}

REQUIRED_IDENTITY_KEYS == {"repo_commit", "objective_hash", "graph_hash", "params_hash"}

LifecycleIds == {"L1", "L2"}

Kinds == {"lifecycle_contract", "objective_spec"}

\* scope as canonical_scope returns it: exactly the four required keys
ScopeOf(lifecycle_id) ==
    [od_pair |-> "p1", graph_id |-> "g1", run_id |-> "r1", lifecycle_id |-> lifecycle_id]

\* identity_fields as canonical_identity returns it: the four required keys
Identity ==
    [repo_commit |-> "c1", objective_hash |-> "o1", graph_hash |-> "g1h", params_hash |-> "pa1"]

CONTRACT_PATH == ".sst/lifecycle_contract.md"

Paths == {".sst/paper1/objective_spec.json", ".sst/paper2/objective_spec.json"}

Hashes == 1..NumHashes

\* the (kind, scope, identity_fields) triples the checked runs register under
Slots ==
    { [kind |-> "objective_spec", scope |-> ScopeOf("L1"), identity_fields |-> Identity],
      [kind |-> "objective_spec", scope |-> ScopeOf("L2"), identity_fields |-> Identity] }

\* ArtifactRecord: what parse_artifact returns for one file
ArtifactRecord(slot, path, hash) ==
    [kind |-> slot.kind, scope |-> slot.scope, identity_fields |-> slot.identity_fields,
     artifact_path |-> path, artifact_hash |-> hash]

Records == { ArtifactRecord(s, p, h) : s \in Slots, p \in Paths, h \in Hashes }

\* the batches of records one registration pass upserts: no file, one file, or two
\* files, which collect_artifact_paths returns with distinct paths unless the
\* allow-list names one file twice (and then the two records are equal)
Batches ==
    { <<>> }
    \cup { <<r>> : r \in Records }
    \cup { b \in { <<r, s>> : r \in Records, s \in Records } :
              b[1].artifact_path # b[2].artifact_path \/ b[1] = b[2] }

(* ------------------------- hashing and ordering ----------------------- *)

\* Python's str order on the kinds in use
KindRank(kind) == IF kind = "lifecycle_contract" THEN 1 ELSE 2

\* order of json.dumps(scope, sort_keys=True): the scopes in use differ in
\* lifecycle_id only
ScopeJsonRank(scope) == IF scope.lifecycle_id = "L1" THEN 1 ELSE 2

\* order of json.dumps(identity_fields, sort_keys=True): one identity in use
IdentityJsonRank(identity_fields) == 1

\* sha256_hex(canonical_json_bytes({kind, scope, identity_fields})): injective
equivalence_key(r) ==
    (KindRank(r.kind) - 1) * 2 + (ScopeJsonRank(r.scope) - 1)

\* sha256_hex(canonical_json_bytes({kind, scope, identity_fields, artifact_hash})):
\* injective in (triple, artifact_hash), independent of artifact_path, and its
\* order (the hex digest's) is unrelated to the order of its inputs
decision_id(r) ==
    ((equivalence_key(r) * 10 + r.artifact_hash) * 19) % 47

(* ------------------------------ state --------------------------------- *)

VARIABLES
    registry_file,  \* .ddb/registry.json: [exists, entries]
    created,        \* the decision ids the last pass reported as new
    op,             \* the last operation: "init", "run" or "dry_run"
    pc,             \* concurrent runs: where each run of main() stands
    mem,            \* concurrent runs: each run's in-memory registry entries
    todo,           \* concurrent runs: the records each run parsed
    ret,            \* concurrent runs: what upsert_entries returned to each run
    contract_text,  \* .sst/lifecycle_contract.md as it is now
    guard_in,       \* the canon documents the last guard evaluation read (<<>>: none yet)
    guard_result,   \* what evaluate_resume_gates returned (<<>>: not evaluated)
    returncode,     \* exit status of the registration tool's last run (<<>>: none yet)
    present,        \* the required canon files under .sst that exist on disk
    gate,           \* eval_gates.py: the locals of main() and where it stands
    texts,          \* two text artifacts as read from disk (sequences of characters)
    canonical,      \* canonical_text_bytes of each of the two (<<>>: not computed)
    call_args,      \* a function of the tool called on its own: its arguments
    call_result     \* what that call returned or raised (<<>>: not called yet)

vars == <<registry_file, created, op, pc, mem, todo, ret, contract_text, guard_in, guard_result,
          returncode, present, gate, texts, canonical, call_args, call_result>>

guard_vars == <<contract_text, guard_in, guard_result>>

gate_vars == <<present, gate>>

text_vars == <<texts, canonical>>

call_vars == <<call_args, call_result>>

\* two invocations of the registration tool
Procs == {"run1", "run2"}

NoFile == [exists |-> FALSE, entries |-> <<>>]

\* load_registry: an absent file loads as an empty ledger
load_registry(file) == IF file.exists THEN file.entries ELSE <<>>

\* eval_gates.py: the canon files that must exist, in the order they are checked
CANON_REQUIRED ==
    << ".sst/index.md", ".sst/next_agent_boot.md", ".sst/resume_protocol.md",
       ".sst/layout_policy.md", ".sst/credentials_policy.md", ".sst/lifecycle_contract.md",
       ".sst/lifecycle_index.json", ".sst/reconstruction_check.json",
       ".sst/claims_matrix.json", ".sst/evidence_index.json", ".sst/run_manifest.json",
       ".sst/system/CURRENT", ".sst/paper1/objective_spec.json",
       ".sst/paper1/sweep_manifest.json", ".sst/paper2/objective_spec.json",
       ".sst/paper2/model_spec.json", ".sst/paper2/sweep_manifest.json",
       ".ddb/registry.json", ".ddb/tools/register_sst.py" >>

REGISTRY_PATH == ".ddb/registry.json"

\* the required files other than the registry, whose existence is registry_file.exists
CanonUnderSst == { CANON_REQUIRED[i] : i \in DOMAIN CANON_REQUIRED } \ {REGISTRY_PATH}

\* eval_gates.py, the command lines: --report, --json, --block
GateArgs == [report : BOOLEAN, json : BOOLEAN, block : BOOLEAN]

\* the locals of main() at position pos (<<>> is a local not yet assigned), what
\* it wrote, how often it started each subprocess and how each one ended
GateFrame(pos, args) ==
    [pc |-> pos, args |-> args, register |-> <<>>, guard |-> <<>>, canon |-> <<>>,
     data |-> <<>>, report_file |-> <<>>, stdout |-> <<>>, exit_code |-> <<>>,
     register_starts |-> 0, guard_starts |-> 0, register_run |-> "", guard_run |-> ""]

(* ---------------------------- upsert_entries -------------------------- *)

\* variant: the scope is left out of the comparison
is_active_equivalent_any_scope(entry, record) ==
    /\ entry.status = "active"
    /\ entry.kind = record.kind
    /\ entry.identity_fields = record.identity_fields

\* lines 260-267: the condition of the list comprehension
is_active_equivalent(entry, record) ==
    /\ entry.status = "active"
    /\ entry.kind = record.kind
    /\ entry.scope = record.scope
    /\ entry.identity_fields = record.identity_fields

\* variant: content counts as registered only when it came from the same file
already_registered_same_path(entries, record) ==
    \E i \in DOMAIN entries :
        /\ entries[i].status = "active"
        /\ entries[i].kind = record.kind
        /\ entries[i].scope = record.scope
        /\ entries[i].identity_fields = record.identity_fields
        /\ entries[i].artifact_hash = record.artifact_hash
        /\ entries[i].artifact_path = record.artifact_path

\* variant: a retired entry with the record's hash counts as registered too
already_registered_any_status(entries, record) ==
    \E i \in DOMAIN entries :
        /\ entries[i].kind = record.kind
        /\ entries[i].scope = record.scope
        /\ entries[i].identity_fields = record.identity_fields
        /\ entries[i].artifact_hash = record.artifact_hash

\* line 268: some active equivalent entry already has the record's hash
already_registered(entries, record) ==
    \E i \in DOMAIN entries :
        is_active_equivalent(entries[i], record)
        /\ entries[i].artifact_hash = record.artifact_hash

\* variant: the status assignment of line 273 is lost
mark_superseded_keeps_status(entry) == entry

\* line 273
mark_superseded(entry) == [entry EXCEPT !.status = "superseded"]

\* variant: the ids are collected after line 273 has retired the entries, when
\* none of them is active any more
superseded_ids_after_marking(entries, record) == <<>>

\* line 271: decision ids of the active equivalent entries, in list order
RECURSIVE superseded_ids(_, _)
superseded_ids(entries, record) ==
    IF entries = <<>> THEN <<>>
    ELSE IF is_active_equivalent(Head(entries), record)
         THEN <<Head(entries).decision_id>> \o superseded_ids(Tail(entries), record)
         ELSE superseded_ids(Tail(entries), record)

\* variant: the new entry never carries the "supersedes" key
new_entry_without_supersedes(entries, record) ==
    [decision_id |-> decision_id(record),
     kind |-> record.kind,
     scope |-> record.scope,
     identity_fields |-> record.identity_fields,
     artifact_path |-> record.artifact_path,
     artifact_hash |-> record.artifact_hash,
     status |-> "active",
     supersedes |-> <<>>]

\* lines 275-287; an entry without the "supersedes" key carries <<>>
new_entry(entries, record) ==
    [decision_id |-> decision_id(record),
     kind |-> record.kind,
     scope |-> record.scope,
     identity_fields |-> record.identity_fields,
     artifact_path |-> record.artifact_path,
     artifact_hash |-> record.artifact_hash,
     status |-> "active",
     supersedes |-> superseded_ids(entries, record)]

\* variant: the retired entries are dropped instead of being marked
upsert_record_replacing(entries, record) ==
    IF already_registered(entries, record)
    THEN entries
    ELSE Append(SelectSeq(entries, LAMBDA e : ~ is_active_equivalent(e, record)),
                new_entry(entries, record))

\* one iteration of the loop of lines 259-290
upsert_record(entries, record) ==
    IF already_registered(entries, record)
    THEN entries
    ELSE Append([i \in DOMAIN entries |->
                    IF is_active_equivalent(entries[i], record)
                    THEN mark_superseded(entries[i])
                    ELSE entries[i]],
                new_entry(entries, record))

\* the sort key of lines 293-298, compared as Python compares tuples
sort_key_less(a, b) ==
    LET ka == <<KindRank(a.kind), ScopeJsonRank(a.scope),
                IdentityJsonRank(a.identity_fields), a.decision_id>>
        kb == <<KindRank(b.kind), ScopeJsonRank(b.scope),
                IdentityJsonRank(b.identity_fields), b.decision_id>>
    IN \E i \in 1..4 : ka[i] < kb[i] /\ \A j \in 1..(i - 1) : ka[j] = kb[j]

\* variant: e goes before the elements with an equal key (an unstable sort)
RECURSIVE insert_sorted_unstable(_, _)
insert_sorted_unstable(sorted, e) ==
    IF sorted = <<>> THEN <<e>>
    ELSE IF ~ sort_key_less(Head(sorted), e)
         THEN <<e>> \o sorted
         ELSE <<Head(sorted)>> \o insert_sorted_unstable(Tail(sorted), e)

\* insert e after every element that is not greater: a stable insertion
RECURSIVE insert_sorted(_, _)
insert_sorted(sorted, e) ==
    IF sorted = <<>> THEN <<e>>
    ELSE IF sort_key_less(e, Head(sorted))
         THEN <<e>> \o sorted
         ELSE <<Head(sorted)>> \o insert_sorted(Tail(sorted), e)

\* sorted(entries, key=...): Python's sort is stable
RECURSIVE sorted_entries(_)
sorted_entries(entries) ==
    IF entries = <<>> THEN <<>>
    ELSE insert_sorted(sorted_entries(SubSeq(entries, 1, Len(entries) - 1)),
                       entries[Len(entries)])

RECURSIVE upsert_loop(_, _, _)
upsert_loop(entries, new_ids, records) ==
    IF records = <<>> THEN [entries |-> entries, created |-> new_ids]
    ELSE LET record == Head(records)
         IN IF already_registered(entries, record)
            THEN upsert_loop(entries, new_ids, Tail(records))
            ELSE upsert_loop(upsert_record(entries, record),
                             Append(new_ids, decision_id(record)),
                             Tail(records))

\* upsert_entries(registry, records): the new entries list and the return value
upsert_entries(entries, records) ==
    LET r == upsert_loop(entries, <<>>, records)
    IN [entries |-> sorted_entries(r.entries), created |-> r.created]

(* ------------------------------ actions ------------------------------- *)

Init ==
    /\ registry_file = NoFile
    /\ created = <<>>
    /\ op = "init"
    /\ pc = [p \in Procs |-> "idle"]
    /\ mem = [p \in Procs |-> <<>>]
    /\ todo = [p \in Procs |-> <<>>]
    /\ ret = [p \in Procs |-> <<>>]
    /\ contract_text = [lifecycle_id |-> "L1", enabled |-> FALSE]
    /\ guard_in = <<>>
    /\ guard_result = <<>>
    /\ returncode = <<>>
    /\ present = CanonUnderSst
    /\ gate = GateFrame("idle", [report |-> FALSE, json |-> FALSE, block |-> FALSE])
    /\ texts = << <<>>, <<>> >>
    /\ canonical = <<>>
    /\ call_args = <<>>
    /\ call_result = <<>>

\* main() of register_sst.py over the parsed records of one pass
register_main(records, dry_run) ==
    LET r == upsert_entries(load_registry(registry_file), records)
    IN /\ Len(r.entries) <= MaxEntries
       /\ UNCHANGED <<pc, mem, todo, ret>>
       /\ created' = r.created
       /\ returncode' = <<0>>
       /\ IF dry_run
          THEN /\ registry_file' = registry_file
               /\ op' = "dry_run"
          ELSE /\ registry_file' = [exists |-> TRUE, entries |-> r.entries]
               /\ op' = "run"

RunPass ==
    /\ \E records \in Batches : register_main(records, FALSE)
    /\ UNCHANGED <<guard_vars, gate_vars, text_vars, call_vars>>

DryRun ==
    /\ \E records \in Batches : register_main(records, TRUE)
    /\ UNCHANGED <<guard_vars, gate_vars, text_vars, call_vars>>

Next == RunPass

Spec == Init /\ [][Next]_vars

(* ---------------------- one upsert after another ---------------------- *)

\* the (kind, scope, identity_fields) triple a record is registered under
slot_of(record) ==
    [kind |-> record.kind, scope |-> record.scope, identity_fields |-> record.identity_fields]

\* in call_args: for every triple, the artifact_hash of the record upserted
\* last for it (<<>>: none yet)
UpsertInit ==
    /\ registry_file = NoFile
    /\ created = <<>>
    /\ op = "init"
    /\ pc = [p \in Procs |-> "idle"]
    /\ mem = [p \in Procs |-> <<>>]
    /\ todo = [p \in Procs |-> <<>>]
    /\ ret = [p \in Procs |-> <<>>]
    /\ contract_text = [lifecycle_id |-> "L1", enabled |-> FALSE]
    /\ guard_in = <<>>
    /\ guard_result = <<>>
    /\ returncode = <<>>
    /\ present = CanonUnderSst
    /\ gate = GateFrame("idle", [report |-> FALSE, json |-> FALSE, block |-> FALSE])
    /\ texts = << <<>>, <<>> >>
    /\ canonical = <<>>
    /\ call_args = [s \in Slots |-> <<>>]
    /\ call_result = <<>>

\* upsert_entries on one record, and the write of the registry; call_result
\* keeps the record
UpsertRecord ==
    /\ \E record \in Records :
          \E r \in { upsert_entries(load_registry(registry_file), <<record>>) } :
             /\ Len(r.entries) <= MaxEntries
             /\ registry_file' = [exists |-> TRUE, entries |-> r.entries]
             /\ created' = r.created
             /\ returncode' = <<0>>
             /\ op' = "run"
             /\ call_args' = [call_args EXCEPT ![slot_of(record)] = <<record.artifact_hash>>]
             /\ call_result' = <<record>>
    /\ UNCHANGED <<pc, mem, todo, ret, guard_vars, gate_vars, text_vars>>

UpsertNext == UpsertRecord

UpsertSpec == UpsertInit /\ [][UpsertNext]_vars

(* ============= register_sst.py: main() over the collected files ======= *)

\* dict(defaults) followed by .update(identity); a dict is a function on its keys
dict_update(defaults, identity) ==
    [k \in (DOMAIN defaults) \cup (DOMAIN identity) |->
        IF k \in DOMAIN identity THEN identity[k] ELSE defaults[k]]

\* the values of an identity dict as json.loads gives them: a string, None or
\* an integer, each with the text str() returns for it
JsonStr(s) == [type |-> "str", text |-> s]

JsonNull == [type |-> "null", text |-> "None"]

JsonInt(digits) == [type |-> "int", text |-> digits]

\* a dict of strings as a dict of JSON values
json_strings(d) == [k \in DOMAIN d |-> JsonStr(d[k])]

\* read_defaults: the identity_fields of the run manifest
DefaultIdentity == json_strings(Identity)

\* bool(value): the empty string, None and 0 are false
truth(value) ==
    CASE value.type = "str" -> value.text # ""
      [] value.type = "null" -> FALSE
      [] value.type = "int" -> value.text # "0"

\* str(value)
str(value) == value.text

\* a variant of canonical_identity in which the defaults override the
\* artifact's identity fields
canonical_identity_defaults_win(identity, defaults) ==
    LET normalized == dict_update(identity, defaults)
        missing == { key \in REQUIRED_IDENTITY_KEYS :
                        key \notin DOMAIN normalized \/ ~ truth(normalized[key]) }
    IN IF missing # {}
       THEN [raised |-> TRUE, missing |-> missing, value |-> <<>>]
       ELSE [raised |-> FALSE, missing |-> {},
             value |-> << [key \in REQUIRED_IDENTITY_KEYS |-> str(normalized[key])] >>]

\* canonical_identity: raises ValueError when normalized.get(key) is false for
\* a required key, that is when the key is absent or its value is false
canonical_identity(identity, defaults) ==
    LET normalized == dict_update(defaults, identity)
        missing == { key \in REQUIRED_IDENTITY_KEYS :
                        key \notin DOMAIN normalized \/ ~ truth(normalized[key]) }
    IN IF missing # {}
       THEN [raised |-> TRUE, missing |-> missing, value |-> <<>>]
       ELSE [raised |-> FALSE, missing |-> {},
             value |-> << [key \in REQUIRED_IDENTITY_KEYS |-> str(normalized[key])] >>]

\* a collected file: what its payload or header says, its content hash, and
\* whether the JSON embedded in a text header can be loaded
ArtifactFile(path, suffix, slot, identity, hash, header_json_ok) ==
    [artifact_path |-> path, suffix |-> suffix, kind |-> slot.kind, scope |-> slot.scope,
     identity_fields |-> identity, artifact_hash |-> hash, header_json_ok |-> header_json_ok]

\* files that parse: objective specs that take their identity from the run manifest
GoodFiles ==
    { ArtifactFile(IF s.scope.lifecycle_id = "L1" THEN ".sst/paper1/objective_spec.json"
                   ELSE ".sst/paper2/objective_spec.json",
                   ".json", s, <<>>, h, TRUE) : s \in Slots, h \in Hashes }

\* files that do not parse: a JSON artifact whose identity_fields blank a
\* required key, and a text artifact whose header carries malformed JSON
BadFiles ==
    { ArtifactFile(".sst/paper2/model_spec.json", ".json",
                   [kind |-> "model_spec", scope |-> ScopeOf("L1")],
                   [params_hash |-> JsonStr("")], 1, TRUE),
      ArtifactFile(".sst/resume_protocol.md", ".md",
                   [kind |-> "resume_protocol", scope |-> ScopeOf("L1")],
                   <<>>, 1, FALSE) }

Files == GoodFiles \cup BadFiles

\* what collect_artifact_paths returns: no file, one file or two different files
FileBatches ==
    { <<>> }
    \cup { <<f>> : f \in Files }
    \cup { b \in { <<f, g>> : f \in Files, g \in Files } :
              b[1].artifact_path # b[2].artifact_path }

\* parse_artifact: json.loads of a header value or canonical_identity may raise
parse_artifact(f, default_identity) ==
    IF f.suffix = ".md" /\ ~ f.header_json_ok
    THEN [raised |-> TRUE, record |-> <<>>]
    ELSE LET identity == canonical_identity(f.identity_fields, default_identity)
         IN IF identity.raised
            THEN [raised |-> TRUE, record |-> <<>>]
            ELSE [raised |-> FALSE,
                  record |-> << ArtifactRecord([kind |-> f.kind, scope |-> f.scope,
                                                identity_fields |-> identity.value[1]],
                                               f.artifact_path, f.artifact_hash) >>]

\* line 321: the list comprehension over the collected files; the first
\* parse_artifact that raises ends it, and main() with it
RECURSIVE parse_all(_, _)
parse_all(files, default_identity) ==
    IF files = <<>> THEN [raised |-> FALSE, records |-> <<>>]
    ELSE LET first == parse_artifact(Head(files), default_identity)
             rest == parse_all(Tail(files), default_identity)
         IN IF first.raised \/ rest.raised
            THEN [raised |-> TRUE, records |-> <<>>]
            ELSE [raised |-> FALSE, records |-> first.record \o rest.records]

\* lines 324-338: the registry file after the run
persisted(file, entries, dry_run) ==
    IF dry_run THEN file ELSE [exists |-> TRUE, entries |-> entries]

\* what the registry file holds when it is not a ledger: "entries_list" for a
\* ledger, else text that is not JSON, or a document whose `entries` is absent,
\* an object or null
registry_format(file) ==
    IF "format" \in DOMAIN file THEN file.format ELSE "entries_list"

\* a variant of the test of load_registry that only asks for the `entries` key
load_registry_without_list_check(file) ==
    file.exists /\ registry_format(file) \in {"not_json", "entries_absent"}

\* lines 203-205: json.loads or the test of `entries` raises
load_registry_raises(file) ==
    file.exists /\ registry_format(file) # "entries_list"

\* load_registry with all it returns: the registry document, or an exception
load_registry_result(file) ==
    IF ~ file.exists
    THEN [raised |-> FALSE, registry |-> << [schema_version |-> "1.0", entries |-> <<>>] >>]
    ELSE IF load_registry_raises(file)
    THEN [raised |-> TRUE, registry |-> <<>>]
    ELSE [raised |-> FALSE,
          registry |-> << [schema_version |-> "1.0", entries |-> file.entries] >>]

\* main(): the registry file, the printed decision ids and the exit status; an
\* unhandled exception ends the process with status 1 and a traceback
register_sst_main(file, files, default_identity, dry_run) ==
    LET parsed == parse_all(files, default_identity)
    IN IF load_registry_raises(file) \/ parsed.raised
       THEN [raised |-> TRUE, returncode |-> 1, file |-> file, created |-> <<>>]
       ELSE LET r == upsert_entries(load_registry(file), parsed.records)
            IN [raised |-> FALSE, returncode |-> 0,
                file |-> persisted(file, r.entries, dry_run), created |-> r.created]

\* one run of the tool, with or without --dry-run
ToolPass ==
    /\ \E files \in FileBatches, dry_run \in BOOLEAN :
          LET out == register_sst_main(registry_file, files, DefaultIdentity, dry_run)
          IN /\ Len(load_registry(out.file)) <= MaxEntries
             /\ registry_file' = out.file
             /\ created' = out.created
             /\ returncode' = <<out.returncode>>
             /\ op' = IF out.raised THEN "raised" ELSE IF dry_run THEN "dry_run" ELSE "run"
    /\ UNCHANGED <<pc, mem, todo, ret, guard_vars, gate_vars, text_vars, call_vars>>

ToolNext == ToolPass

ToolSpec == Init /\ [][ToolNext]_vars

(* --------------------- a pass over any registry file ------------------ *)

\* .ddb/registry.json before the pass: absent, an empty ledger, or not a ledger
RegistryFiles ==
    { NoFile, [exists |-> TRUE, entries |-> <<>>] }
    \cup { [exists |-> TRUE, entries |-> <<>>, format |-> f] :
              f \in {"not_json", "entries_absent", "entries_object", "entries_null"} }

LoadInit ==
    /\ registry_file \in RegistryFiles
    /\ created = <<>>
    /\ op = "init"
    /\ pc = [p \in Procs |-> "idle"]
    /\ mem = [p \in Procs |-> <<>>]
    /\ todo = [p \in Procs |-> <<>>]
    /\ ret = [p \in Procs |-> <<>>]
    /\ contract_text = [lifecycle_id |-> "L1", enabled |-> FALSE]
    /\ guard_in = <<>>
    /\ guard_result = <<>>
    /\ returncode = <<>>
    /\ present = CanonUnderSst
    /\ gate = GateFrame("idle", [report |-> FALSE, json |-> FALSE, block |-> FALSE])
    /\ texts = << <<>>, <<>> >>
    /\ canonical = <<>>
    /\ call_args = <<>>
    /\ call_result = <<>>

\* one run of the tool; call_result keeps what load_registry returned to it
LoadPass ==
    /\ \E files \in FileBatches, dry_run \in BOOLEAN :
          \E out \in { register_sst_main(registry_file, files, DefaultIdentity, dry_run) } :
             /\ Len(load_registry(out.file)) <= MaxEntries
             /\ registry_file' = out.file
             /\ created' = out.created
             /\ returncode' = <<out.returncode>>
             /\ op' = IF out.raised THEN "raised" ELSE IF dry_run THEN "dry_run" ELSE "run"
    /\ call_result' = <<load_registry_result(registry_file)>>
    /\ UNCHANGED <<pc, mem, todo, ret, guard_vars, gate_vars, text_vars, call_args>>

LoadNext == LoadPass

LoadSpec == LoadInit /\ [][LoadNext]_vars

(* ------------------- canonical_identity on its own -------------------- *)

\* the values an identity dict may hold for a key
IdentityValues == {JsonStr(""), JsonStr("x1"), JsonNull, JsonInt("0"), JsonInt("7")}

\* identity_fields of an artifact: any of two required keys and a key that is
\* not required, each with any value
ArtifactIdentities ==
    UNION { [keys -> IdentityValues] : keys \in SUBSET {"repo_commit", "params_hash", "note"} }

\* identity_fields of the run manifest: any of the required keys, each empty or not
ManifestIdentities ==
    UNION { [keys -> {JsonStr(""), JsonStr("d1")}] : keys \in SUBSET REQUIRED_IDENTITY_KEYS }

IdentityInit ==
    /\ registry_file = NoFile
    /\ created = <<>>
    /\ op = "init"
    /\ pc = [p \in Procs |-> "idle"]
    /\ mem = [p \in Procs |-> <<>>]
    /\ todo = [p \in Procs |-> <<>>]
    /\ ret = [p \in Procs |-> <<>>]
    /\ contract_text = [lifecycle_id |-> "L1", enabled |-> FALSE]
    /\ guard_in = <<>>
    /\ guard_result = <<>>
    /\ returncode = <<>>
    /\ present = CanonUnderSst
    /\ gate = GateFrame("idle", [report |-> FALSE, json |-> FALSE, block |-> FALSE])
    /\ texts = << <<>>, <<>> >>
    /\ canonical = <<>>
    /\ call_args \in [identity : ArtifactIdentities, defaults : ManifestIdentities]
    /\ call_result = <<>>

\* parse_json_artifact / parse_md_artifact call canonical_identity
CallCanonicalIdentity ==
    /\ call_result = <<>>
    /\ call_result' = <<canonical_identity(call_args.identity, call_args.defaults)>>
    /\ UNCHANGED <<registry_file, created, op, pc, mem, todo, ret, guard_vars, returncode,
                   gate_vars, text_vars, call_args>>

IdentityNext == CallCanonicalIdentity

IdentitySpec == IdentityInit /\ [][IdentityNext]_vars

(* ------------------- two runs of main() side by side ------------------ *)

\* lines 316-321: the run reads the registry file and parses its artifacts
Load(p) ==
    /\ pc[p] = "idle"
    /\ \E records \in Batches :
          /\ todo' = [todo EXCEPT ![p] = records]
          /\ mem' = [mem EXCEPT ![p] = load_registry(registry_file)]
    /\ pc' = [pc EXCEPT ![p] = "loaded"]
    /\ UNCHANGED <<registry_file, created, op, ret, guard_vars, returncode, gate_vars, text_vars, call_vars>>

\* line 322: upsert_entries on the run's own copy
Upsert(p) ==
    /\ pc[p] = "loaded"
    /\ LET r == upsert_entries(mem[p], todo[p])
       IN /\ mem' = [mem EXCEPT ![p] = r.entries]
          /\ ret' = [ret EXCEPT ![p] = r.created]
    /\ pc' = [pc EXCEPT ![p] = "upserted"]
    /\ UNCHANGED <<registry_file, created, op, todo, guard_vars, returncode, gate_vars, text_vars, call_vars>>

\* lines 337-345: the run writes its copy over the registry file
Write(p) ==
    /\ pc[p] = "upserted"
    /\ registry_file' = [exists |-> TRUE, entries |-> mem[p]]
    /\ created' = ret[p]
    /\ op' = "run"
    /\ returncode' = <<0>>
    /\ pc' = [pc EXCEPT ![p] = "done"]
    /\ UNCHANGED <<mem, todo, ret, guard_vars, gate_vars, text_vars, call_vars>>

ConcNext == \E p \in Procs : Load(p) \/ Upsert(p) \/ Write(p)

ConcSpec == Init /\ [][ConcNext]_vars

(* ======================== lifecycle_guard.py ========================== *)

\* the lifecycle contracts in use: the fenced JSON payload of the text
ContractTexts == { [lifecycle_id |-> "L1", enabled |-> b] : b \in BOOLEAN }

\* extract_contract_payload: the payload embedded in the contract text
extract_contract_payload(text) ==
    [lifecycle_id |-> text.lifecycle_id,
     orphan_override_rule |-> [enabled |-> text.enabled]]

\* canonical_text_hash: SHA-256 of the canonical text; distinct contract texts
\* in use have distinct canonical forms
canonical_text_hash(text) == IF text.enabled THEN 2 ELSE 1

\* sha256_hex(canonical_text_bytes(text)) of the registration tool, on the
\* contract texts in use
canonical_text_bytes_sha256(text) == IF text.enabled THEN 2 ELSE 1

\* parse_md_artifact on .sst/lifecycle_contract.md: kind is the file's stem,
\* the scope comes from the header or the run manifest
contract_record(text, scope_lifecycle) ==
    ArtifactRecord([kind |-> "lifecycle_contract", scope |-> ScopeOf(scope_lifecycle),
                    identity_fields |-> Identity],
                   CONTRACT_PATH, canonical_text_bytes_sha256(text))

\* variant: the status of the entry is not looked at
contract_is_in_registry_any_status(file, contract_hash, lifecycle_id) ==
    /\ file.exists
    /\ \E i \in DOMAIN file.entries :
          LET entry == file.entries[i]
          IN /\ entry.kind = "lifecycle_contract"
             /\ entry.artifact_path = ".sst/lifecycle_contract.md"
             /\ entry.artifact_hash = contract_hash
             /\ entry.scope.lifecycle_id = lifecycle_id

\* lines 43-59
contract_is_active_in_registry(file, contract_hash, lifecycle_id) ==
    /\ file.exists
    /\ \E i \in DOMAIN file.entries :
          LET entry == file.entries[i]
          IN /\ entry.status = "active"
             /\ entry.kind = "lifecycle_contract"
             /\ entry.artifact_path = ".sst/lifecycle_contract.md"
             /\ entry.artifact_hash = contract_hash
             /\ entry.scope.lifecycle_id = lifecycle_id

\* "UNSET" in str(value), on the strings in use
ContainsUNSET(value) == value \in {"UNSET", "UNSET_params_hash", "sha256:UNSET"}

RECURSIVE unset_in_items(_, _)
unset_in_items(path, items) ==
    IF items = <<>> THEN <<>>
    ELSE (IF ContainsUNSET(Head(items)[2]) THEN << <<path, Head(items)[1]>> >> ELSE <<>>)
         \o unset_in_items(path, Tail(items))

RECURSIVE unset_violations_of(_)
unset_violations_of(docs) ==
    IF docs = <<>> THEN <<>>
    ELSE (IF Head(docs).identity_is_dict
          THEN unset_in_items(Head(docs).path, Head(docs).decisiondb_identity_fields)
          ELSE <<>>)
         \o unset_violations_of(Tail(docs))

\* decision_identity_fields_have_no_unset over the canon JSON documents
decision_identity_fields_have_no_unset(docs) ==
    LET violations == unset_violations_of(docs)
    IN [ok |-> violations = <<>>, violations |-> violations]

\* str.lower on the claim statuses in use
lower(status) == IF status = "Supported" THEN "supported" ELSE status

RECURSIVE claim_violations_of(_)
claim_violations_of(claims) ==
    IF claims = <<>> THEN <<>>
    ELSE (IF lower(Head(claims).status) = "supported" /\ Len(Head(claims).evidence_refs) = 0
          THEN <<Head(claims).claim_id>> ELSE <<>>)
         \o claim_violations_of(Tail(claims))

\* supported_claims_have_evidence over claims_matrix.json
supported_claims_have_evidence(matrix) ==
    IF ~ matrix.exists
    THEN [ok |-> FALSE, violations |-> <<"missing .sst/claims_matrix.json">>]
    ELSE LET violations == claim_violations_of(matrix.claims)
         IN [ok |-> violations = <<>>, violations |-> violations]

\* hashlib.sha256(bytes).hexdigest() on the byte strings in use: injective
sha256_hexdigest(bytes) ==
    CASE bytes = "raw_v1" -> "d_raw_v1"
      [] bytes = "raw_v2" -> "d_raw_v2"
      [] bytes = "doc_v1" -> "d_doc_v1"
      [] bytes = "doc_v2" -> "d_doc_v2"
      [] bytes = "metrics_v1" -> "d_metrics_v1"
      [] bytes = "metrics_v2" -> "d_metrics_v2"
      [] bytes = "slice_v1" -> "d_slice_v1"
      [] bytes = "slice_v2" -> "d_slice_v2"
      [] OTHER -> "d_other"

\* json.loads(raw_bytes.decode("utf-8")).  A JSON value is held as the text that
\* json.dumps(value, sort_keys=True, separators=(",", ":")) gives for it:
\* doc_v1 is {"metrics":{"x":1}}, metrics_v1 is {"x":1}, slice_v1 is 1, and
\* likewise v2 with 2.  raw_v1 and raw_v2 are the same documents written with
\* indentation; raw_text is not JSON.
json_loads(bytes) ==
    CASE bytes \in {"raw_v1", "doc_v1"} -> [ok |-> TRUE, value |-> [dumps |-> "doc_v1"]]
      [] bytes \in {"raw_v2", "doc_v2"} -> [ok |-> TRUE, value |-> [dumps |-> "doc_v2"]]
      [] bytes \in {"metrics_v1", "metrics_v2", "slice_v1", "slice_v2"} ->
             [ok |-> TRUE, value |-> [dumps |-> bytes]]
      [] OTHER -> [ok |-> FALSE, value |-> [dumps |-> ""]]

\* json.dumps(value, sort_keys=True, separators=(",", ":")).encode("utf-8")
json_dumps(value) == value.dumps

\* current[token] on a dict: KeyError when the key is absent; the values in
\* use hold no list, and a number has no members (line 82)
member(value, token) ==
    CASE value.dumps = "doc_v1" /\ token = "metrics" -> [ok |-> TRUE, value |-> [dumps |-> "metrics_v1"]]
      [] value.dumps = "doc_v2" /\ token = "metrics" -> [ok |-> TRUE, value |-> [dumps |-> "metrics_v2"]]
      [] value.dumps = "metrics_v1" /\ token = "x" -> [ok |-> TRUE, value |-> [dumps |-> "slice_v1"]]
      [] value.dumps = "metrics_v2" /\ token = "x" -> [ok |-> TRUE, value |-> [dumps |-> "slice_v2"]]
      [] OTHER -> [ok |-> FALSE, value |-> value]

\* a pointer is the sequence of its "/" characters and of the runs of other
\* characters between them: "/metrics/x" is <<"/", "metrics", "/", "x">>
RECURSIVE lstrip_slashes(_)
lstrip_slashes(pointer) ==
    IF pointer # <<>> /\ Head(pointer) = "/" THEN lstrip_slashes(Tail(pointer)) ELSE pointer

\* str.split("/")
RECURSIVE split_slashes(_)
split_slashes(pointer) ==
    IF pointer = <<>> THEN <<"">>
    ELSE IF Head(pointer) = "/" THEN <<"">> \o split_slashes(Tail(pointer))
    ELSE IF Tail(pointer) = <<>> THEN <<Head(pointer)>>
    ELSE <<Head(pointer)>> \o split_slashes(Tail(Tail(pointer)))

\* the loop of lines 75-82; the tokens in use hold no "~"
RECURSIVE walk_tokens(_, _)
walk_tokens(current, tokens) ==
    IF tokens = <<>> THEN [ok |-> TRUE, value |-> current]
    ELSE LET next == member(current, Head(tokens))
         IN IF next.ok THEN walk_tokens(next.value, Tail(tokens))
            ELSE [ok |-> FALSE, value |-> current]

\* json_pointer_get: ok is FALSE when it raises
json_pointer_get(obj, pointer) ==
    IF pointer = <<>> THEN [ok |-> TRUE, value |-> obj]
    ELSE IF Head(pointer) # "/" THEN [ok |-> FALSE, value |-> obj]
    ELSE walk_tokens(obj, split_slashes(lstrip_slashes(pointer)))

\* the try block of lines 154-160: the bytes whose hash is the slice hash
json_pointer_slice(raw_bytes, pointer) ==
    LET raw_obj == json_loads(raw_bytes)
    IN IF ~ raw_obj.ok THEN [ok |-> FALSE, bytes |-> ""]
       ELSE LET slice_value == json_pointer_get(raw_obj.value, pointer)
            IN IF slice_value.ok
               THEN [ok |-> TRUE, bytes |-> json_dumps(slice_value.value)]
               ELSE [ok |-> FALSE, bytes |-> ""]

\* variant: the raw file's hash is not compared
evidence_violation_without_raw_hash(record, raw_files) ==
    IF record.raw_path = "" THEN "missing_raw_path"
    ELSE IF ContainsUNSET(record.raw_file_sha256) \/ ContainsUNSET(record.slice_sha256)
    THEN "unset_hash"
    ELSE IF ~ raw_files[record.raw_path].exists THEN "raw_missing"
    ELSE LET raw_bytes == raw_files[record.raw_path].bytes
         IN IF record.json_pointer # <<>>
            THEN LET sl == json_pointer_slice(raw_bytes, record.json_pointer)
                 IN IF ~ sl.ok THEN "invalid_json_pointer"
                    ELSE IF sha256_hexdigest(sl.bytes) # record.slice_sha256
                    THEN "slice_hash_mismatch" ELSE ""
            ELSE IF sha256_hexdigest(raw_bytes) # record.slice_sha256
            THEN "slice_hash_mismatch" ELSE ""

\* variant: the slice hash is not compared
evidence_violation_without_slice_hash(record, raw_files) ==
    IF record.raw_path = "" THEN "missing_raw_path"
    ELSE IF ContainsUNSET(record.raw_file_sha256) \/ ContainsUNSET(record.slice_sha256)
    THEN "unset_hash"
    ELSE IF ~ raw_files[record.raw_path].exists THEN "raw_missing"
    ELSE LET raw_bytes == raw_files[record.raw_path].bytes
         IN IF sha256_hexdigest(raw_bytes) # record.raw_file_sha256 THEN "raw_hash_mismatch"
            ELSE IF record.json_pointer # <<>>
            THEN LET sl == json_pointer_slice(raw_bytes, record.json_pointer)
                 IN IF ~ sl.ok THEN "invalid_json_pointer" ELSE ""
            ELSE ""

\* the body of the loop of evidence_hashes_match: "" when the record verifies
evidence_violation(record, raw_files) ==
    IF record.raw_path = "" THEN "missing_raw_path"
    ELSE IF ContainsUNSET(record.raw_file_sha256) \/ ContainsUNSET(record.slice_sha256)
    THEN "unset_hash"
    ELSE IF ~ raw_files[record.raw_path].exists THEN "raw_missing"
    ELSE LET raw_bytes == raw_files[record.raw_path].bytes
         IN IF sha256_hexdigest(raw_bytes) # record.raw_file_sha256 THEN "raw_hash_mismatch"
            ELSE IF record.json_pointer # <<>>
            THEN LET sl == json_pointer_slice(raw_bytes, record.json_pointer)
                 IN IF ~ sl.ok THEN "invalid_json_pointer"
                    ELSE IF sha256_hexdigest(sl.bytes) # record.slice_sha256
                    THEN "slice_hash_mismatch" ELSE ""
            ELSE IF sha256_hexdigest(raw_bytes) # record.slice_sha256
            THEN "slice_hash_mismatch" ELSE ""

RECURSIVE evidence_violations_of(_, _)
evidence_violations_of(records, raw_files) ==
    IF records = <<>> THEN <<>>
    ELSE LET v == evidence_violation(Head(records), raw_files)
         IN (IF v = "" THEN <<>> ELSE << <<Head(records).evidence_id, v>> >>)
            \o evidence_violations_of(Tail(records), raw_files)

\* evidence_hashes_match over evidence_index.json and the raw files
evidence_hashes_match(index, raw_files) ==
    IF ~ index.exists
    THEN [ok |-> FALSE, violations |-> << <<"", "missing .sst/evidence_index.json">> >>]
    ELSE LET violations == evidence_violations_of(index.evidence, raw_files)
         IN [ok |-> violations = <<>>, violations |-> violations]

(* ---- the canon documents the guard is evaluated on ---- *)

RawPaths == {"raw/run1.json"}

SNAPSHOT_REL == ".sst/system/snapshot_0001"

CanonDocCases ==
    { << [path |-> ".sst/paper1/objective_spec.json", identity_is_dict |-> TRUE,
          decisiondb_identity_fields |-> << <<"params_hash", "abc">> >>] >>,
      << [path |-> ".sst/paper1/objective_spec.json", identity_is_dict |-> TRUE,
          decisiondb_identity_fields |-> << <<"params_hash", "UNSET_params_hash">> >>] >> }

ClaimsCases ==
    { [exists |-> TRUE,
       claims |-> << [claim_id |-> "c1", status |-> "supported", evidence_refs |-> <<"e1">>],
                     [claim_id |-> "c2", status |-> "draft", evidence_refs |-> <<>>] >>],
      [exists |-> TRUE,
       claims |-> << [claim_id |-> "c1", status |-> "Supported", evidence_refs |-> <<>>] >>] }

\* the pointer "/metrics/x"
POINTER_METRICS_X == <<"/", "metrics", "/", "x">>

EvidenceRecord(raw_sha, slice_sha, pointer) ==
    [evidence_id |-> "e1", raw_path |-> "raw/run1.json", raw_file_sha256 |-> raw_sha,
     slice_sha256 |-> slice_sha, json_pointer |-> pointer]

EvidenceCases ==
    { [index |-> [exists |-> TRUE,
                  evidence |-> << EvidenceRecord("d_raw_v1", "d_slice_v1", POINTER_METRICS_X) >>],
       raw_files |-> [p \in RawPaths |-> [exists |-> TRUE, bytes |-> "raw_v1"]]],
      [index |-> [exists |-> TRUE,
                  evidence |-> << EvidenceRecord("d_raw_v1", "d_slice_v1", POINTER_METRICS_X) >>],
       raw_files |-> [p \in RawPaths |-> [exists |-> TRUE, bytes |-> "raw_v2"]]] }

\* no expected_lifecycle_id was passed (the parameter's default, None)
NoneId == "None"

GuardInputs ==
    [ manifest_lifecycle : LifecycleIds,
      lifecycle_index_lifecycle : LifecycleIds,
      reconstruction_lifecycle : LifecycleIds,
      expected_lifecycle_id : {NoneId} \cup LifecycleIds,
      reconstructable : BOOLEAN,
      summary_status : {"pass", "fail"},
      orphan_count : (-1)..MaxOrphans,
      snapshot_exists : BOOLEAN,
      managed_snapshot_refs : { {}, {SNAPSHOT_REL}, {""} },
      canon_docs : CanonDocCases,
      claims_matrix : ClaimsCases,
      evidence : EvidenceCases ]

(* ---- evaluate_resume_gates ---- *)

R_MANIFEST == "abort: lifecycle_id mismatch between run_manifest and lifecycle_contract"
R_INDEX == "abort: lifecycle_id mismatch between lifecycle_index and lifecycle_contract"
R_RECONSTRUCTION == "abort: lifecycle_id mismatch between reconstruction_check and lifecycle_contract"
R_RECONSTRUCTABLE == "abort: reconstruction_check.reconstructable is false"
R_SUMMARY == "abort: reconstruction_check summary status is not pass"
R_REQUESTED == "abort: lifecycle_id mismatch against requested lifecycle_id"
R_SNAPSHOT_MISSING == "abort: current snapshot referenced by .sst/system/CURRENT is missing"
R_SNAPSHOT_UNMANAGED == "abort: current snapshot is not in lifecycle_index managed_snapshot_refs"
R_ORPHANS == "abort: orphan snapshots detected and override is not explicitly enabled"
R_CONTRACT_INACTIVE == "abort: orphan override enabled but updated lifecycle contract is not active in .ddb registry"
R_UNSET == "abort: UNSET found in decisiondb_identity_fields"
R_CLAIMS == "abort: supported claim missing evidence_refs"
R_EVIDENCE == "abort: evidence hash mismatch or invalid evidence record"

reason_if(cond, reason) == IF cond THEN <<reason>> ELSE <<>>

\* lines 186-211: the lifecycle id and reconstruction checks
identity_reasons(checks) ==
    reason_if(~ checks.manifest_contract_match, R_MANIFEST)
    \o reason_if(~ checks.lifecycle_index_match, R_INDEX)
    \o reason_if(~ checks.reconstruction_lifecycle_match, R_RECONSTRUCTION)
    \o reason_if(~ checks.reconstructable, R_RECONSTRUCTABLE)
    \o reason_if(~ checks.summary_pass, R_SUMMARY)
    \o reason_if(~ checks.requested_lifecycle_match, R_REQUESTED)

\* lines 216-225
snapshot_reasons(checks) ==
    reason_if(~ checks.current_snapshot_exists, R_SNAPSHOT_MISSING)
    \o reason_if(checks.current_snapshot_exists /\ ~ checks.current_snapshot_managed,
                 R_SNAPSHOT_UNMANAGED)

\* variant: the registry is not consulted when the override is engaged
orphan_reasons_without_registry_check(orphan_count, override_enabled, contract_active) ==
    reason_if(orphan_count > 0 /\ ~ override_enabled, R_ORPHANS)

\* lines 230-235
orphan_reasons(orphan_count, override_enabled, contract_active) ==
    reason_if(orphan_count > 0 /\ ~ override_enabled, R_ORPHANS)
    \o reason_if(orphan_count > 0 /\ override_enabled /\ ~ contract_active,
                 R_CONTRACT_INACTIVE)

\* variant: a failed evidence check appends no abort reason
document_reasons_without_evidence(checks) ==
    reason_if(~ checks.decisiondb_identity_fields_no_unset, R_UNSET)
    \o reason_if(~ checks.supported_claims_have_evidence_refs, R_CLAIMS)

\* lines 237-247
document_reasons(checks) ==
    reason_if(~ checks.decisiondb_identity_fields_no_unset, R_UNSET)
    \o reason_if(~ checks.supported_claims_have_evidence_refs, R_CLAIMS)
    \o reason_if(~ checks.evidence_hashes_match_raw, R_EVIDENCE)

evaluate_resume_gates(in, text, file) ==
    LET contract_payload == extract_contract_payload(text)
        contract_hash == canonical_text_hash(text)
        contract_lifecycle == contract_payload.lifecycle_id
        orphan_count == in.orphan_count
        override_enabled == contract_payload.orphan_override_rule.enabled
        current_rel == IF in.snapshot_exists THEN SNAPSHOT_REL ELSE ""
        unset == decision_identity_fields_have_no_unset(in.canon_docs)
        supported == supported_claims_have_evidence(in.claims_matrix)
        evidence == evidence_hashes_match(in.evidence.index, in.evidence.raw_files)
        checks ==
            [manifest_contract_match |-> in.manifest_lifecycle = contract_lifecycle,
             lifecycle_index_match |-> in.lifecycle_index_lifecycle = contract_lifecycle,
             reconstruction_lifecycle_match |-> in.reconstruction_lifecycle = contract_lifecycle,
             reconstructable |-> in.reconstructable,
             summary_pass |-> in.summary_status = "pass",
             requested_lifecycle_match |->
                 IF in.expected_lifecycle_id # NoneId
                 THEN in.expected_lifecycle_id = contract_lifecycle
                 ELSE TRUE,
             orphan_free |-> orphan_count = 0,
             current_snapshot_exists |-> in.snapshot_exists,
             current_snapshot_managed |-> current_rel \in in.managed_snapshot_refs,
             override_enabled_if_needed |-> (orphan_count = 0) \/ override_enabled,
             contract_active_in_registry |->
                 contract_is_active_in_registry(file, contract_hash, contract_lifecycle),
             decisiondb_identity_fields_no_unset |-> unset.ok,
             supported_claims_have_evidence_refs |-> supported.ok,
             evidence_hashes_match_raw |-> evidence.ok]
        reasons ==
            identity_reasons(checks)
            \o snapshot_reasons(checks)
            \o orphan_reasons(orphan_count, override_enabled, checks.contract_active_in_registry)
            \o document_reasons(checks)
    IN [allowed |-> reasons = <<>>,
        lifecycle_id |-> contract_lifecycle,
        checks |-> checks,
        orphan_count |-> orphan_count,
        override_enabled |-> override_enabled,
        contract_hash |-> contract_hash,
        unset_violations |-> unset.violations,
        supported_claim_violations |-> supported.violations,
        evidence_hash_violations |-> evidence.violations,
        reasons |-> reasons]

(* ---- the guard beside the ledger ---- *)

\* the lifecycle contract is edited: its override rule is switched
EditContract ==
    /\ guard_result = <<>>
    /\ \E text \in ContractTexts \ {contract_text} : contract_text' = text
    /\ UNCHANGED <<registry_file, created, op, pc, mem, todo, ret, guard_in, guard_result,
                   returncode, gate_vars, text_vars, call_vars>>

\* a registration pass over the lifecycle contract as it is now
RegisterContract ==
    /\ guard_result = <<>>
    /\ \E l \in LifecycleIds :
          LET records == <<contract_record(contract_text, l)>>
          IN /\ Len(upsert_entries(load_registry(registry_file), records).entries)
                   <= MaxContractEntries
             /\ register_main(records, FALSE)
    /\ UNCHANGED <<guard_vars, gate_vars, text_vars, call_vars>>

\* lifecycle_guard.py is run on the canon documents as they are
Evaluate ==
    /\ guard_result = <<>>
    /\ \E in \in GuardInputs :
          /\ guard_in' = <<in>>
          /\ guard_result' = <<evaluate_resume_gates(in, contract_text, registry_file)>>
    /\ UNCHANGED <<registry_file, created, op, pc, mem, todo, ret, contract_text,
                   returncode, gate_vars, text_vars, call_vars>>

GuardNext == EditContract \/ RegisterContract \/ Evaluate

GuardSpec == Init /\ [][GuardNext]_vars

(* ---- the evidence check on its own ---- *)

\* canon documents on which every check of the guard passes
PassingInput ==
    [manifest_lifecycle |-> "L1",
     lifecycle_index_lifecycle |-> "L1",
     reconstruction_lifecycle |-> "L1",
     expected_lifecycle_id |-> NoneId,
     reconstructable |-> TRUE,
     summary_status |-> "pass",
     orphan_count |-> 0,
     snapshot_exists |-> TRUE,
     managed_snapshot_refs |-> {SNAPSHOT_REL},
     canon_docs |-> << [path |-> ".sst/paper1/objective_spec.json", identity_is_dict |-> TRUE,
                        decisiondb_identity_fields |-> << <<"params_hash", "abc">> >>] >>,
     claims_matrix |-> [exists |-> TRUE,
                        claims |-> << [claim_id |-> "c1", status |-> "supported",
                                       evidence_refs |-> <<"e1">>] >>],
     evidence |-> [index |-> [exists |-> TRUE, evidence |-> <<>>],
                   raw_files |-> [p \in RawPaths |-> [exists |-> TRUE, bytes |-> "raw_v1"]]]]

\* "", "/metrics/x", "/metrics", "/missing" and "metrics/x"
Pointers ==
    { <<>>, POINTER_METRICS_X, <<"/", "metrics">>, <<"/", "missing">>, <<"metrics", "/", "x">> }

\* the evidence records of one id that the index may hold
EvidenceRecords(id) ==
    { [evidence_id |-> id, raw_path |-> raw_path, raw_file_sha256 |-> raw_sha,
       slice_sha256 |-> slice_sha, json_pointer |-> pointer] :
        raw_path \in {"", "raw/run1.json"},
        raw_sha \in {"d_raw_v1", "d_doc_v1", "sha256:UNSET"},
        slice_sha \in {"d_slice_v1", "d_metrics_v1", "d_doc_v1", "d_raw_v1", "UNSET"},
        pointer \in Pointers }

\* a second record beside the first: one built from raw_v1, one without a raw path
SecondRecords ==
    { r \in EvidenceRecords("e2") :
        /\ r.raw_file_sha256 = "d_raw_v1"
        /\ r.slice_sha256 = "d_slice_v1"
        /\ r.json_pointer = POINTER_METRICS_X }

\* the raw file: absent, or holding one of four contents
RawFileStates ==
    { [exists |-> FALSE, bytes |-> ""] }
    \cup { [exists |-> TRUE, bytes |-> b] : b \in {"raw_v1", "doc_v1", "raw_v2", "raw_text"} }

\* evidence_index.json (absent, or with one or two records) and the raw file
EvidenceWorlds ==
    { [index |-> [exists |-> TRUE, evidence |-> ev], raw_files |-> [p \in RawPaths |-> f]] :
        ev \in { <<a>> : a \in EvidenceRecords("e1") }
               \cup { <<a, b>> : a \in EvidenceRecords("e1"), b \in SecondRecords },
        f \in RawFileStates }
    \cup { [index |-> [exists |-> FALSE, evidence |-> <<>>], raw_files |-> [p \in RawPaths |-> f]] :
             f \in RawFileStates }

\* the guard is run on canon documents that pass every other check
VerifyEvidence ==
    /\ guard_result = <<>>
    /\ \E world \in EvidenceWorlds :
          LET in == [PassingInput EXCEPT !.evidence = world]
          IN /\ guard_in' = <<in>>
             /\ guard_result' = <<evaluate_resume_gates(in, contract_text, registry_file)>>
    /\ UNCHANGED <<registry_file, created, op, pc, mem, todo, ret, contract_text,
                   returncode, gate_vars, text_vars, call_vars>>

EvidenceNext == VerifyEvidence

EvidenceSpec == Init /\ [][EvidenceNext]_vars

(* ========================== eval_gates.py ============================= *)

RUN_MANIFEST == ".sst/run_manifest.json"

LIFECYCLE_INDEX == ".sst/lifecycle_index.json"

RECONSTRUCTION_CHECK == ".sst/reconstruction_check.json"

SYSTEM_CURRENT == ".sst/system/CURRENT"

CLAIMS_MATRIX == ".sst/claims_matrix.json"

EVIDENCE_INDEX == ".sst/evidence_index.json"

\* dict.get(key, default)
get(d, key, default) == IF key \in DOMAIN d THEN d[key] ELSE default

\* the files that exist: the canon files under .sst and the registry
on_disk(sst_files, file) ==
    sst_files \cup (IF file.exists THEN {REGISTRY_PATH} ELSE {})

\* what the guard's document checks find: an absent claims matrix or evidence
\* index is seen by the existence tests of lines 110 and 124
canon_documents(in, sst_files) ==
    [in EXCEPT !.claims_matrix =
                   IF CLAIMS_MATRIX \in sst_files THEN @ ELSE [exists |-> FALSE, claims |-> <<>>],
               !.evidence =
                   [@ EXCEPT !.index =
                       IF EVIDENCE_INDEX \in sst_files THEN @
                       ELSE [exists |-> FALSE, evidence |-> <<>>]]]

\* the files evaluate_resume_gates reads with no existence test: load_json and
\* read_text of lines 171-176 and of current_snapshot_path raise when one is absent
ReadUnguarded ==
    {RUN_MANIFEST, LIFECYCLE_INDEX, RECONSTRUCTION_CHECK, CONTRACT_PATH, SYSTEM_CURRENT}

\* lifecycle_guard.py run as a process: main() prints the result and returns 0
\* or 2; an exception of evaluate_resume_gates is not handled, the process
\* prints a traceback on stderr, nothing on stdout, and exits with status 1
lifecycle_guard_main(in, text, file, sst_files) ==
    IF ReadUnguarded \subseteq sst_files
    THEN LET result == evaluate_resume_gates(canon_documents(in, sst_files), text, file)
         IN [raised |-> FALSE, stdout |-> <<result>>, stderr |-> "",
             returncode |-> IF result.allowed THEN 0 ELSE 2]
    ELSE [raised |-> TRUE, stdout |-> <<>>, stderr |-> "Traceback: FileNotFoundError",
          returncode |-> 1]

\* variant: a registration step that timed out counts as passed
run_register_sst_timeout_passes(kind, returncode_of_run) ==
    IF kind = "completed"
    THEN [ok |-> returncode_of_run = 0, exit_code |-> returncode_of_run]
    ELSE [ok |-> kind = "timeout", exit_code |-> -1]

\* run_register_sst: the subprocess completed with a return code, or
\* subprocess.run raised (timeout after 60 s, launch error)
run_register_sst(kind, returncode_of_run) ==
    IF kind = "completed"
    THEN [ok |-> returncode_of_run = 0, exit_code |-> returncode_of_run]
    ELSE [ok |-> FALSE, exit_code |-> -1]

\* lines 79-89: the guard process completed and printed a JSON document or nothing
run_lifecycle_guard_completed(proc) ==
    IF Len(proc.stdout) > 0
    THEN [result |-> proc.stdout[1], exit_code |-> proc.returncode]
    ELSE [result |-> [allowed |-> FALSE, checks |-> <<>>,
                      reasons |-> <<IF proc.stderr # "" THEN proc.stderr ELSE "no stdout">>],
          exit_code |-> proc.returncode]

\* lines 90-96: stdout was not empty and json.loads raised
run_lifecycle_guard_invalid_json ==
    [result |-> [allowed |-> FALSE, error |-> "lifecycle_guard output was not valid JSON",
                 checks |-> <<>>, reasons |-> <<"JSONDecodeError">>],
     exit_code |-> 2]

\* variant: a guard step that timed out counts as allowed
run_lifecycle_guard_raised_allows(kind) ==
    [result |-> [allowed |-> kind = "timeout", error |-> kind, checks |-> <<>>,
                 reasons |-> <<"lifecycle_guard raised">>],
     exit_code |-> 2]

\* lines 97-103: subprocess.run raised (timeout after 30 s, launch error)
run_lifecycle_guard_raised(kind) ==
    [result |-> [allowed |-> FALSE, error |-> kind, checks |-> <<>>,
                 reasons |-> <<"lifecycle_guard raised">>],
     exit_code |-> 2]

\* check_canon_layout: the required paths that do not exist, in list order
check_canon_layout(files) ==
    LET missing == SelectSeq(CANON_REQUIRED, LAMBDA rel : rel \notin files)
    IN [ok |-> Len(missing) = 0, missing |-> missing]

\* build_report, without its timestamp and its output preview
build_report(register_ok, guard_res, canon_ok, canon_missing) ==
    [overall_pass |-> (register_ok /\ get(guard_res, "allowed", FALSE) /\ canon_ok),
     summary |-> [register_sst |-> IF register_ok THEN "pass" ELSE "fail",
                  lifecycle_guard_allowed |-> get(guard_res, "allowed", FALSE),
                  canon_layout_complete |-> canon_ok],
     register_sst |-> [ok |-> register_ok],
     lifecycle_guard |-> [allowed |-> get(guard_res, "allowed", FALSE),
                          lifecycle_id |-> get(guard_res, "lifecycle_id", ""),
                          checks |-> get(guard_res, "checks", <<>>),
                          reasons |-> get(guard_res, "reasons", <<>>),
                          orphan_count |-> get(guard_res, "orphan_count", 0),
                          evidence_hash_violations |->
                              get(guard_res, "evidence_hash_violations", <<>>)],
     canon_layout |-> [ok |-> canon_ok, missing |-> canon_missing]]

\* variant: the report is printed only when every gate passed
printed_on_success_only(args, data) ==
    IF data.overall_pass
    THEN << [format |-> IF args.block THEN "block" ELSE IF args.json THEN "json" ELSE "markdown",
             overall_pass |-> data.overall_pass] >>
    ELSE <<>>

\* lines 274-279: what main() prints on stdout
printed(args, data) ==
    << [format |-> IF args.block THEN "block" ELSE IF args.json THEN "json" ELSE "markdown",
        overall_pass |-> data.overall_pass] >>

\* variant: a denying guard is not looked at when the layout is complete
main_exit_code_ignoring_guard(register_ok, guard_res, canon_ok) ==
    IF ~ register_ok THEN 1
    ELSE IF ~ canon_ok THEN 3
    ELSE 0

\* lines 281-288
main_exit_code(register_ok, guard_res, canon_ok) ==
    IF ~ register_ok THEN 1
    ELSE IF ~ get(guard_res, "allowed", FALSE) THEN 2
    ELSE IF ~ canon_ok THEN 3
    ELSE 0

\* the canon files that some checkout lacks
MayBeAbsent ==
    {RUN_MANIFEST, LIFECYCLE_INDEX, RECONSTRUCTION_CHECK, CONTRACT_PATH, SYSTEM_CURRENT,
     CLAIMS_MATRIX, ".sst/index.md"}

\* the canon documents the guard process finds when the evaluator runs it:
\* main() of lifecycle_guard.py passes no expected lifecycle id
GateGuardInputs ==
    { in \in [ manifest_lifecycle : {"L1"},
               lifecycle_index_lifecycle : {"L1"},
               reconstruction_lifecycle : {"L1"},
               expected_lifecycle_id : {NoneId},
               reconstructable : BOOLEAN,
               summary_status : {"pass"},
               orphan_count : {0, 1},
               snapshot_exists : {TRUE},
               managed_snapshot_refs : { {SNAPSHOT_REL} },
               canon_docs : CanonDocCases,
               claims_matrix : ClaimsCases,
               evidence : EvidenceCases ] :
        /\ \A i \in DOMAIN in.canon_docs :
              \A j \in DOMAIN in.canon_docs[i].decisiondb_identity_fields :
                 ~ ContainsUNSET(in.canon_docs[i].decisiondb_identity_fields[j][2])
        /\ claim_violations_of(in.claims_matrix.claims) = <<>>
        /\ evidence_violations_of(in.evidence.index.evidence, in.evidence.raw_files) = <<>> }

\* the artifacts the registration step finds: the lifecycle contract when it exists
GateBatches(text, sst_files) ==
    { <<>> } \cup (IF CONTRACT_PATH \in sst_files THEN { <<contract_record(text, "L1")>> } ELSE {})

GateInit ==
    /\ registry_file = NoFile
    /\ created = <<>>
    /\ op = "init"
    /\ pc = [p \in Procs |-> "idle"]
    /\ mem = [p \in Procs |-> <<>>]
    /\ todo = [p \in Procs |-> <<>>]
    /\ ret = [p \in Procs |-> <<>>]
    /\ contract_text \in ContractTexts
    /\ guard_in = <<>>
    /\ guard_result = <<>>
    /\ returncode = <<>>
    /\ present \in { CanonUnderSst \ absent : absent \in SUBSET MayBeAbsent }
    /\ \E args \in GateArgs : gate = GateFrame("start", args)
    /\ texts = << <<>>, <<>> >>
    /\ canonical = <<>>
    /\ call_args = <<>>
    /\ call_result = <<>>

\* line 259, the registration tool ran to its end: it wrote the registry
RegisterStepCompletes ==
    /\ gate.pc = "start"
    /\ \E records \in GateBatches(contract_text, present) : register_main(records, FALSE)
    /\ gate' = [gate EXCEPT !.pc = "registered",
                            !.register = <<run_register_sst("completed", 0)>>,
                            !.register_run = "completed",
                            !.register_starts = @ + 1]
    /\ UNCHANGED <<guard_vars, present, text_vars, call_vars>>

\* line 259, the registration tool ended by an unhandled exception (status 1),
\* before it wrote anything
RegisterStepFails ==
    /\ gate.pc = "start"
    /\ returncode' = <<1>>
    /\ op' = "raised"
    /\ created' = <<>>
    /\ gate' = [gate EXCEPT !.pc = "registered",
                            !.register = <<run_register_sst("completed", 1)>>,
                            !.register_run = "completed",
                            !.register_starts = @ + 1]
    /\ UNCHANGED <<registry_file, pc, mem, todo, ret, guard_vars, present, text_vars, call_vars>>

\* line 259, subprocess.run raised: the tool did not start, or was killed at
\* the timeout before it wrote anything
RegisterStepRaises ==
    /\ gate.pc = "start"
    /\ \E kind \in {"timeout", "launch_error"} :
          gate' = [gate EXCEPT !.pc = "registered",
                               !.register = <<run_register_sst(kind, 0)>>,
                               !.register_run = kind,
                               !.register_starts = @ + 1]
    /\ UNCHANGED <<registry_file, created, op, pc, mem, todo, ret, guard_vars, returncode, present, text_vars, call_vars>>

\* line 260, the guard process ran to its end
GuardStepCompletes ==
    /\ gate.pc = "registered"
    /\ \E in \in GateGuardInputs :
          \E proc \in { lifecycle_guard_main(in, contract_text, registry_file, present) } :
             /\ guard_in' = <<in>>
             /\ guard_result' = proc.stdout
             /\ gate' = [gate EXCEPT !.pc = "guarded",
                                     !.guard = <<run_lifecycle_guard_completed(proc)>>,
                                     !.guard_run = IF proc.raised THEN "crashed" ELSE "completed",
                                     !.guard_starts = @ + 1]
    /\ UNCHANGED <<registry_file, created, op, pc, mem, todo, ret, contract_text,
                   returncode, present, text_vars, call_vars>>

\* line 260, the guard's output was not a JSON document
GuardStepInvalidJson ==
    /\ gate.pc = "registered"
    /\ gate' = [gate EXCEPT !.pc = "guarded",
                            !.guard = <<run_lifecycle_guard_invalid_json>>,
                            !.guard_run = "invalid_json",
                            !.guard_starts = @ + 1]
    /\ UNCHANGED <<registry_file, created, op, pc, mem, todo, ret, guard_vars,
                   returncode, present, text_vars, call_vars>>

\* line 260, the guard process printed a JSON object that has no "allowed"
\* member: json.loads (line 81) hands it on as it is
GuardStepOmitsAllowed ==
    /\ gate.pc = "registered"
    /\ \E proc \in { [raised |-> FALSE, stdout |-> << [checks |-> <<>>, reasons |-> <<>>] >>,
                       stderr |-> "", returncode |-> 0] } :
          /\ guard_result' = proc.stdout
          /\ gate' = [gate EXCEPT !.pc = "guarded",
                                  !.guard = <<run_lifecycle_guard_completed(proc)>>,
                                  !.guard_run = "omits_allowed",
                                  !.guard_starts = @ + 1]
    /\ UNCHANGED <<registry_file, created, op, pc, mem, todo, ret, contract_text, guard_in,
                   returncode, present, text_vars, call_vars>>

\* variant: the guard step does not wait for the registration step
GuardStepRaises_before_registration ==
    /\ gate.pc \in {"start", "registered"}
    /\ \E kind \in {"timeout", "launch_error"} :
          gate' = [gate EXCEPT !.pc = "guarded",
                               !.register = <<run_register_sst("launch_error", 0)>>,
                               !.guard = <<run_lifecycle_guard_raised(kind)>>,
                               !.guard_run = kind,
                               !.guard_starts = @ + 1]
    /\ UNCHANGED <<registry_file, created, op, pc, mem, todo, ret, guard_vars,
                   returncode, present, text_vars, call_vars>>

\* line 260, subprocess.run raised
GuardStepRaises ==
    /\ gate.pc = "registered"
    /\ \E kind \in {"timeout", "launch_error"} :
          gate' = [gate EXCEPT !.pc = "guarded",
                               !.guard = <<run_lifecycle_guard_raised(kind)>>,
                               !.guard_run = kind,
                               !.guard_starts = @ + 1]
    /\ UNCHANGED <<registry_file, created, op, pc, mem, todo, ret, guard_vars,
                   returncode, present, text_vars, call_vars>>

\* lines 261-263
BuildReport ==
    /\ gate.pc = "guarded"
    /\ LET canon == check_canon_layout(on_disk(present, registry_file))
       IN gate' = [gate EXCEPT !.pc = "built",
                               !.canon = <<canon>>,
                               !.data = <<build_report(gate.register[1].ok, gate.guard[1].result,
                                                       canon.ok, canon.missing)>>]
    /\ UNCHANGED <<registry_file, created, op, pc, mem, todo, ret, guard_vars,
                   returncode, present, text_vars, call_vars>>

\* lines 266-279: the report file when --report is given, then the block, the
\* JSON document or the Markdown text on stdout
EmitReport ==
    /\ gate.pc = "built"
    /\ gate' = [gate EXCEPT !.pc = "emitted",
                            !.report_file = IF gate.args.report THEN gate.data ELSE <<>>,
                            !.stdout = printed(gate.args, gate.data[1])]
    /\ UNCHANGED <<registry_file, created, op, pc, mem, todo, ret, guard_vars,
                   returncode, present, text_vars, call_vars>>

\* lines 281-288
ReturnExitCode ==
    /\ gate.pc = "emitted"
    /\ gate' = [gate EXCEPT !.pc = "exited",
                            !.exit_code = <<main_exit_code(gate.register[1].ok,
                                                           gate.guard[1].result,
                                                           gate.canon[1].ok)>>]
    /\ UNCHANGED <<registry_file, created, op, pc, mem, todo, ret, guard_vars,
                   returncode, present, text_vars, call_vars>>

GateNext ==
    \/ RegisterStepCompletes
    \/ RegisterStepFails
    \/ RegisterStepRaises
    \/ GuardStepCompletes
    \/ GuardStepInvalidJson
    \/ GuardStepOmitsAllowed
    \/ GuardStepRaises
    \/ BuildReport
    \/ EmitReport
    \/ ReturnExitCode

GateSpec == GateInit /\ [][GateNext]_vars

(* ------------- text canonicalization (register_sst.py) ---------------- *)

\* the characters of the modelled text documents: a letter, a space, a tab,
\* a carriage return and a line feed
ALPHABET == {"a", " ", "\t", "\r", "\n"}

\* the characters str.rstrip() removes (str.isspace), among those of ALPHABET
WHITESPACE == {" ", "\t", "\r", "\n"}

\* every text of at most MaxTextLen characters
Texts == UNION { [1..n -> ALPHABET] : n \in 0..MaxTextLen }

\* str.startswith at the head of text
startswith(text, prefix) ==
    /\ Len(text) >= Len(prefix)
    /\ SubSeq(text, 1, Len(prefix)) = prefix

\* text.replace(old, new): the occurrences of old, from the left and without
\* overlap, replaced by new (old is never empty here)
RECURSIVE str_replace(_, _, _)
str_replace(text, old, new) ==
    IF Len(text) = 0 THEN <<>>
    ELSE IF startswith(text, old)
         THEN new \o str_replace(SubSeq(text, Len(old) + 1, Len(text)), old, new)
         ELSE <<Head(text)>> \o str_replace(Tail(text), old, new)

\* text.split(sep) for a separator of one character: the pieces between the
\* separators, the empty ones included; the last piece is line
RECURSIVE str_split_from(_, _, _)
str_split_from(text, sep, line) ==
    IF Len(text) = 0 THEN <<line>>
    ELSE IF Head(text) = sep
         THEN <<line>> \o str_split_from(Tail(text), sep, <<>>)
         ELSE str_split_from(Tail(text), sep, Append(line, Head(text)))

str_split(text, sep) == str_split_from(text, sep, <<>>)

\* line.rstrip(): the line without the whitespace at its end
RECURSIVE rstrip(_)
rstrip(line) ==
    IF Len(line) > 0 /\ line[Len(line)] \in WHITESPACE
    THEN rstrip(SubSeq(line, 1, Len(line) - 1))
    ELSE line

\* sep.join(lines)
RECURSIVE str_join(_, _)
str_join(sep, lines) ==
    IF Len(lines) = 0 THEN <<>>
    ELSE IF Len(lines) = 1 THEN lines[1]
    ELSE lines[1] \o sep \o str_join(sep, Tail(lines))

\* the UTF-8 byte of each character of ALPHABET
UTF8 ==
    [c \in ALPHABET |->
        CASE c = "a" -> 97
          [] c = " " -> 32
          [] c = "\t" -> 9
          [] c = "\r" -> 13
          [] c = "\n" -> 10]

\* str.encode("utf-8")
encode_utf8(text) == [i \in 1..Len(text) |-> UTF8[text[i]]]

\* bytes.decode("utf-8")
decode_utf8(bytes) == [i \in 1..Len(bytes) |-> CHOOSE c \in ALPHABET : UTF8[c] = bytes[i]]

\* a variant of canonical_text_bytes that keeps the whitespace at the end of
\* lines
canonical_text_bytes_without_rstrip(text) ==
    LET lines == str_split(str_replace(str_replace(text, <<"\r", "\n">>, <<"\n">>),
                                       <<"\r">>, <<"\n">>), "\n")
    IN encode_utf8(str_join(<<"\n">>, lines))

\* canonical_text_bytes(text)
canonical_text_bytes(text) ==
    LET lines == str_split(str_replace(str_replace(text, <<"\r", "\n">>, <<"\n">>),
                                       <<"\r">>, <<"\n">>), "\n")
        normalized == str_join(<<"\n">>, [i \in 1..Len(lines) |-> rstrip(lines[i])])
    IN encode_utf8(normalized)

\* the two hexadecimal digits of each byte
HEX ==
    [b \in {97, 32, 9, 13, 10} |->
        CASE b = 97 -> <<"6", "1">>
          [] b = 32 -> <<"2", "0">>
          [] b = 9 -> <<"0", "9">>
          [] b = 13 -> <<"0", "d">>
          [] b = 10 -> <<"0", "a">>]

\* hashlib.sha256(data).hexdigest(): SHA-256 is taken to be injective, and the
\* digest of a byte string is written as the hexadecimal digits of its bytes
RECURSIVE hexdigest(_)
hexdigest(data) ==
    IF Len(data) = 0 THEN <<>> ELSE HEX[Head(data)] \o hexdigest(Tail(data))

\* sha256_hex of register_sst.py
sha256_hex(data) == hexdigest(data)

\* a variant of the guard's canonical_text_hash that leaves a lone CR in place
guard_canonical_text_hash_keeping_cr(text) ==
    LET lines == str_split(str_replace(text, <<"\r", "\n">>, <<"\n">>), "\n")
        normalized == encode_utf8(str_join(<<"\n">>, [i \in 1..Len(lines) |-> rstrip(lines[i])]))
    IN hexdigest(normalized)

\* canonical_text_hash of lifecycle_guard.py, on a text given character by character
guard_canonical_text_hash(text) ==
    LET lines == str_split(str_replace(str_replace(text, <<"\r", "\n">>, <<"\n">>),
                                       <<"\r">>, <<"\n">>), "\n")
        normalized == encode_utf8(str_join(<<"\n">>, [i \in 1..Len(lines) |-> rstrip(lines[i])]))
    IN hexdigest(normalized)

\* two text artifacts are on disk, nothing is canonicalized yet
TextInit ==
    /\ registry_file = NoFile
    /\ created = <<>>
    /\ op = "init"
    /\ pc = [p \in Procs |-> "idle"]
    /\ mem = [p \in Procs |-> <<>>]
    /\ todo = [p \in Procs |-> <<>>]
    /\ ret = [p \in Procs |-> <<>>]
    /\ contract_text = [lifecycle_id |-> "L1", enabled |-> FALSE]
    /\ guard_in = <<>>
    /\ guard_result = <<>>
    /\ returncode = <<>>
    /\ present = CanonUnderSst
    /\ gate = GateFrame("idle", [report |-> FALSE, json |-> FALSE, block |-> FALSE])
    /\ texts \in Texts \X Texts
    /\ canonical = <<>>
    /\ call_args = <<>>
    /\ call_result = <<>>

\* both documents are canonicalized as they are read
Canonicalize ==
    /\ canonical = <<>>
    /\ canonical' = <<canonical_text_bytes(texts[1]), canonical_text_bytes(texts[2])>>
    /\ UNCHANGED <<registry_file, created, op, pc, mem, todo, ret, guard_vars, returncode,
                   gate_vars, texts, call_vars>>

\* the canonical bytes are written back as the documents and canonicalized again
Recanonicalize ==
    /\ canonical # <<>>
    /\ texts' = <<decode_utf8(canonical[1]), decode_utf8(canonical[2])>>
    /\ canonical' = <<canonical_text_bytes(texts'[1]), canonical_text_bytes(texts'[2])>>
    /\ UNCHANGED <<registry_file, created, op, pc, mem, todo, ret, guard_vars, returncode,
                   gate_vars, call_vars>>

TextNext ==
    \/ Canonicalize
    \/ Recanonicalize

TextSpec == TextInit /\ [][TextNext]_vars

(* ------------------- collect_artifact_paths on its own ---------------- *)

\* paths are sequences of lexemes: names, suffixes and the separators "/" and "\"
A_JSON == <<".sst", "/", "a", ".json">>
C_PY == <<".sst", "/", "c", ".py">>
D_JSON == <<".sst", "/", "d", ".json">>
D_JSON_B_MD == <<".sst", "/", "d", ".json", "/", "b", ".md">>
PAPER1 == <<".sst", "/", "paper1">>
PAPER1_B_MD == <<".sst", "/", "paper1", "/", "b", ".md">>
TOOLS == <<".sst", "/", "tools">>
TOOLS_A_JSON == <<".sst", "/", "tools", "/", "a", ".json">>
TOOLS_GUARD_PY == <<".sst", "/", "tools", "/", "guard", ".py">>
TOOLS_BACKSLASH_A_JSON == <<".sst", "/", "tools", "\\", "a", ".json">>
README_MD == <<"docs", "/", "readme", ".md">>
ETC_A_JSON == <<"/", "etc", "/", "a", ".json">>
MISSING_JSON == <<".sst", "/", "missing", ".json">>

\* the regular files a checkout may hold; a directory exists when a file lies in it
CandidateFiles ==
    {A_JSON, C_PY, D_JSON_B_MD, PAPER1_B_MD, TOOLS_A_JSON, TOOLS_GUARD_PY,
     TOOLS_BACKSLASH_A_JSON, README_MD, ETC_A_JSON}

FileSystems == SUBSET CandidateFiles

\* the files and directories that may lie under .sst, in the order of sorted()
SortedUnderSst ==
    <<A_JSON, C_PY, D_JSON, D_JSON_B_MD, PAPER1, PAPER1_B_MD, TOOLS, TOOLS_A_JSON,
      TOOLS_GUARD_PY, TOOLS_BACKSLASH_A_JSON>>

\* exclusion globs: ".sst/tools/**", "*.md" and ".sst/paper1/*"
TOOLS_GLOB == <<".sst", "/", "tools", "/", "*", "*">>
STAR_MD == <<"*", ".md">>
PAPER1_GLOB == <<".sst", "/", "paper1", "/", "*">>

\* Path.is_file()
is_file(fs, path) == path \in fs

\* Path.is_dir(): .sst itself (main() requires it) or a directory of some file
is_dir(fs, path) ==
    \/ path = <<".sst">>
    \/ \E f \in fs : /\ Len(f) > Len(path)
                     /\ SubSeq(f, 1, Len(path) + 1) = path \o <<"/">>

\* Path.exists()
path_exists(fs, path) == is_file(fs, path) \/ is_dir(fs, path)

\* the last component of a path: the lexemes after its last "/"
RECURSIVE path_name(_)
path_name(path) ==
    IF \E i \in 1..Len(path) : path[i] = "/" THEN path_name(Tail(path)) ELSE path

\* Path.suffix: the last dot-suffix of the last component, "" when there is none
path_suffix(path) ==
    LET name == path_name(path)
    IN IF Len(name) > 1 /\ name[Len(name)] \in {".json", ".md", ".py"}
       THEN name[Len(name)] ELSE ""

\* fnmatch(name, pattern): "*" matches any run of characters, "/" included
RECURSIVE fnmatch(_, _)
fnmatch(name, pattern) ==
    IF Len(pattern) = 0 THEN Len(name) = 0
    ELSE IF Head(pattern) = "*"
         THEN \/ fnmatch(name, Tail(pattern))
              \/ Len(name) > 0 /\ fnmatch(Tail(name), pattern)
         ELSE /\ Len(name) > 0
              /\ Head(name) = Head(pattern)
              /\ fnmatch(Tail(name), Tail(pattern))

\* rel_path.replace("\\", "/")
replace_backslashes(rel_path) ==
    [i \in 1..Len(rel_path) |-> IF rel_path[i] = "\\" THEN "/" ELSE rel_path[i]]

\* a variant of should_exclude that matches the path as it is
should_exclude_without_normalizing(rel_path, patterns) ==
    \E i \in 1..Len(patterns) : fnmatch(rel_path, patterns[i])

\* should_exclude
should_exclude(rel_path, patterns) ==
    LET normalized == replace_backslashes(rel_path)
    IN \E i \in 1..Len(patterns) : fnmatch(normalized, patterns[i])

\* a JSON value of the config file: a list with its items, or something else
JsonList(items) == [is_list |-> TRUE, items |-> items]

NotAList == [is_list |-> FALSE, items |-> <<>>]

\* load_config: config_file is <<>> when the file does not exist, else <<payload>>
load_config(config_file) ==
    IF Len(config_file) = 0
    THEN [raised |-> FALSE, known_artifacts |-> <<>>, exclude_globs |-> <<TOOLS_GLOB>>]
    ELSE LET payload == config_file[1]
             known_artifacts == get(payload, "known_artifacts", JsonList(<<>>))
             exclude_globs == get(payload, "exclude_globs", JsonList(<<TOOLS_GLOB>>))
         IN IF ~ known_artifacts.is_list \/ ~ exclude_globs.is_list
            THEN [raised |-> TRUE, known_artifacts |-> <<>>, exclude_globs |-> <<>>]
            ELSE [raised |-> FALSE, known_artifacts |-> known_artifacts.items,
                  exclude_globs |-> exclude_globs.items]

\* lines 232-242: the allow-list; relative_to(ROOT) raises for a path outside
\* the repository, which ends the loop and the call
RECURSIVE collect_known(_, _, _)
collect_known(known_artifacts, exclude_globs, fs) ==
    IF Len(known_artifacts) = 0 THEN [raised |-> FALSE, artifacts |-> <<>>]
    ELSE LET path == Head(known_artifacts)
             rest == collect_known(Tail(known_artifacts), exclude_globs, fs)
         IN IF ~ path_exists(fs, path) \/ ~ is_file(fs, path) THEN rest
            ELSE IF path_suffix(path) \notin {".json", ".md"} THEN rest
            ELSE IF Head(path) = "/" THEN [raised |-> TRUE, artifacts |-> <<>>]
            ELSE IF should_exclude(path, exclude_globs) THEN rest
            ELSE IF rest.raised THEN rest
            ELSE [raised |-> FALSE, artifacts |-> <<path>> \o rest.artifacts]

\* lines 243-252: the walk over sorted(SST_DIR.glob("**/*"))
collect_discovered(exclude_globs, fs) ==
    LET found == SelectSeq(SortedUnderSst, LAMBDA path : path_exists(fs, path))
        kept(path) == /\ is_file(fs, path)
                      /\ ~ should_exclude(path, exclude_globs)
                      /\ path_suffix(path) \in {".json", ".md"}
    IN [raised |-> FALSE, artifacts |-> SelectSeq(found, kept)]

\* collect_artifact_paths
collect_artifact_paths(config, fs) ==
    IF Len(config.known_artifacts) > 0
    THEN collect_known(config.known_artifacts, config.exclude_globs, fs)
    ELSE collect_discovered(config.exclude_globs, fs)

\* lines 317-320 of main(): the config is loaded and the artifacts collected
collect_from(config_file, fs) ==
    LET config == load_config(config_file)
    IN IF config.raised THEN [raised |-> TRUE, artifacts |-> <<>>]
       ELSE collect_artifact_paths(config, fs)

\* known_artifacts of a config file
KnownLists ==
    { <<>>, <<A_JSON>>, <<TOOLS_A_JSON, README_MD>>, <<PAPER1>>, <<MISSING_JSON, PAPER1_B_MD>>,
      <<A_JSON, ETC_A_JSON>>, <<C_PY, D_JSON, TOOLS_BACKSLASH_A_JSON>> }

\* exclude_globs of a config file
GlobLists == { <<>>, <<TOOLS_GLOB>>, <<STAR_MD>>, <<TOOLS_GLOB, PAPER1_GLOB>> }

\* the config file: absent, or a payload with either key present or not
ConfigFiles ==
    { <<>> }
    \cup { << [known_artifacts |-> k, exclude_globs |-> g] >> :
              k \in { JsonList(l) : l \in KnownLists } \cup {NotAList},
              g \in { JsonList(l) : l \in GlobLists } \cup {NotAList} }
    \cup { << [known_artifacts |-> k] >> : k \in { JsonList(l) : l \in KnownLists } }
    \cup { << [exclude_globs |-> g] >> : g \in { JsonList(l) : l \in GlobLists } }
    \cup { << <<>> >> }

CollectInit ==
    /\ registry_file = NoFile
    /\ created = <<>>
    /\ op = "init"
    /\ pc = [p \in Procs |-> "idle"]
    /\ mem = [p \in Procs |-> <<>>]
    /\ todo = [p \in Procs |-> <<>>]
    /\ ret = [p \in Procs |-> <<>>]
    /\ contract_text = [lifecycle_id |-> "L1", enabled |-> FALSE]
    /\ guard_in = <<>>
    /\ guard_result = <<>>
    /\ returncode = <<>>
    /\ present = CanonUnderSst
    /\ gate = GateFrame("idle", [report |-> FALSE, json |-> FALSE, block |-> FALSE])
    /\ texts = << <<>>, <<>> >>
    /\ canonical = <<>>
    /\ call_args \in [fs : FileSystems, config_file : ConfigFiles]
    /\ call_result = <<>>

\* main() loads the config and collects the artifact paths
CollectArtifactPaths ==
    /\ call_result = <<>>
    /\ call_result' = <<collect_from(call_args.config_file, call_args.fs)>>
    /\ UNCHANGED <<registry_file, created, op, pc, mem, todo, ret, guard_vars, returncode,
                   gate_vars, text_vars, call_args>>

CollectNext == CollectArtifactPaths

CollectSpec == CollectInit /\ [][CollectNext]_vars

(* ======================= registry: C1 .. C7 =========================== *)

\* the ledger as the next pass loads it
Entries == load_registry(registry_file)

Triple(e) == [kind |-> e.kind, scope |-> e.scope, identity_fields |-> e.identity_fields]

ActiveOf(entries, triple) ==
    { i \in DOMAIN entries : entries[i].status = "active" /\ Triple(entries[i]) = triple }

Count(entries, P(_)) == Cardinality({ i \in DOMAIN entries : P(entries[i]) })

SeqRange(s) == { s[i] : i \in DOMAIN s }

\* C1: in every registry reachable from the empty one by upsert passes, each
\* (kind, scope, identity_fields) triple has at most one active entry.
C1_AtMostOneActivePerTriple ==
    \A i, j \in DOMAIN Entries :
        ( /\ Entries[i].status = "active"
          /\ Entries[j].status = "active"
          /\ Triple(Entries[i]) = Triple(Entries[j]) ) => i = j

\* a triple holds a superseded entry beside its active one
C1_Witness ==
    \E i, j \in DOMAIN Entries :
        /\ Triple(Entries[i]) = Triple(Entries[j])
        /\ Entries[i].status = "active"
        /\ Entries[j].status = "superseded"

\* C2: upserting a record whose triple has an active entry with the record's
\* artifact_hash returns no new decision id and leaves every entry unchanged.
C2_UpsertIdempotent ==
    \A r \in Records :
        (\E i \in ActiveOf(Entries, Triple(r)) : Entries[i].artifact_hash = r.artifact_hash)
        => upsert_entries(Entries, <<r>>) = [entries |-> Entries, created |-> <<>>]

\* a pass over a non-empty ledger has just reported no new decision id
C2_Witness ==
    /\ op = "run"
    /\ created = <<>>
    /\ \E i \in DOMAIN Entries : Entries[i].status = "active"

\* what C3 expects of the ledger after r superseded the active entries of its triple
C3_Expected(entries, r) ==
    LET act == ActiveOf(entries, Triple(r))
        marked == [i \in DOMAIN entries |->
                      IF i \in act THEN [entries[i] EXCEPT !.status = "superseded"]
                      ELSE entries[i]]
    IN [marked |-> marked, ids |-> { entries[i].decision_id : i \in act }, n |-> Cardinality(act)]

\* C3: upserting a record whose triple has active entries, none with the
\* record's hash, supersedes exactly those entries and appends exactly one
\* entry: active, with the record's decision id and fields, whose supersedes
\* list is exactly the decision ids of the entries that were active.
C3_SupersedeExactly ==
    \A r \in Records :
        LET act == ActiveOf(Entries, Triple(r))
            exp == C3_Expected(Entries, r)
            res == upsert_entries(Entries, <<r>>)
            fresh == { i \in DOMAIN res.entries :
                          /\ res.entries[i].status = "active"
                          /\ Triple(res.entries[i]) = Triple(r) }
        IN ( /\ act # {}
             /\ \A i \in act : Entries[i].artifact_hash # r.artifact_hash )
           => /\ res.created = <<decision_id(r)>>
              /\ Len(res.entries) = Len(Entries) + 1
              /\ Cardinality(fresh) = 1
              /\ \A i \in fresh :
                    /\ res.entries[i].decision_id = decision_id(r)
                    /\ res.entries[i].artifact_hash = r.artifact_hash
                    /\ res.entries[i].artifact_path = r.artifact_path
                    /\ SeqRange(res.entries[i].supersedes) = exp.ids
                    /\ Len(res.entries[i].supersedes) = exp.n
                    /\ \A e \in SeqRange(exp.marked) :
                          Count(res.entries, LAMBDA x : x = e)
                            = Count(exp.marked, LAMBDA x : x = e)
                              + (IF e = res.entries[i] THEN 1 ELSE 0)

\* a pass has just created an entry that supersedes an earlier one
C3_Witness ==
    /\ op = "run"
    /\ \E i \in DOMAIN Entries :
          /\ Entries[i].status = "active"
          /\ Entries[i].supersedes # <<>>
          /\ Entries[i].decision_id \in SeqRange(created)

\* C4: running upsert on a batch and then again on the same unchanged batch
\* creates no new decision id in the second run and does not grow the ledger.
C4_RerunCreatesNothing ==
    \A b \in Batches :
        LET first == upsert_entries(Entries, b)
            second == upsert_entries(first.entries, b)
        IN /\ second.created = <<>>
           /\ Len(second.entries) = Len(first.entries)

\* C5: no two entries of a reachable registry share a decision_id.
C5_DecisionIdsUnique ==
    \A i, j \in DOMAIN Entries :
        Entries[i].decision_id = Entries[j].decision_id => i = j

Core(e) == [e EXCEPT !.status = "-"]

\* C6: across every pass each entry persists with all fields but status
\* unchanged, status moves only from active to superseded, and the number of
\* entries never decreases.
C6_AppendSupersedeOnly ==
    [][ LET old == load_registry(registry_file)
            new == load_registry(registry_file')
        IN /\ Len(new) >= Len(old)
           /\ \A i \in DOMAIN old :
                 /\ Count(old, LAMBDA x : Core(x) = Core(old[i]))
                      <= Count(new, LAMBDA x : Core(x) = Core(old[i]))
                 /\ old[i].status = "superseded" =>
                       Count(old, LAMBDA x : x = old[i]) <= Count(new, LAMBDA x : x = old[i])
                 /\ old[i].status \in {"active", "superseded"}
           /\ \A i \in DOMAIN new : new[i].status \in {"active", "superseded"} ]_vars

\* a pass has just turned an active entry into a superseded one
C6_Witness ==
    /\ op = "run"
    /\ created # <<>>
    /\ \E i \in DOMAIN Entries : Entries[i].status = "superseded"

IsSorted(entries) ==
    \A i, j \in DOMAIN entries : i < j => ~ sort_key_less(entries[j], entries[i])

\* C7: a pass that writes and creates no new decision id, started from a
\* registry file the tool wrote, writes the file it read: the entries it read
\* were in sort order and the re-sort does not reorder them.
C7_NoOpPassRewritesSameFile ==
    [][ (registry_file.exists /\ op' = "run" /\ created' = <<>>)
        => (registry_file' = registry_file /\ IsSorted(Entries)) ]_vars

\* a no-op pass over a ledger holding two entries with equal sort keys
C7_Witness ==
    /\ op = "run"
    /\ created = <<>>
    /\ \E i, j \in DOMAIN Entries :
          i # j /\ Entries[i].decision_id = Entries[j].decision_id

(* ===================== concurrent runs: C8 ============================ *)

\* C8: when two registration runs execute concurrently, the final registry
\* holds the entries created by both runs and has at most one active entry
\* per triple.
C8_NoLostUpdate ==
    (\A p \in Procs : pc[p] = "done")
    => /\ \A p \in Procs : \A id \in SeqRange(ret[p]) :
             \E i \in DOMAIN Entries : Entries[i].decision_id = id
       /\ \A i, j \in DOMAIN Entries :
             ( /\ Entries[i].status = "active"
               /\ Entries[j].status = "active"
               /\ Triple(Entries[i]) = Triple(Entries[j]) ) => i = j

(* ========================= guard: C9, C10 ============================= *)

\* the checks whose failure the orphan override cannot excuse
OtherChecks ==
    {"manifest_contract_match", "lifecycle_index_match", "reconstruction_lifecycle_match",
     "reconstructable", "summary_pass", "requested_lifecycle_match",
     "current_snapshot_exists", "current_snapshot_managed",
     "decisiondb_identity_fields_no_unset", "supported_claims_have_evidence_refs",
     "evidence_hashes_match_raw"}

\* the abort reasons a failed check accounts for
ReasonsOf(k) ==
    CASE k = "manifest_contract_match" -> {R_MANIFEST}
      [] k = "lifecycle_index_match" -> {R_INDEX}
      [] k = "reconstruction_lifecycle_match" -> {R_RECONSTRUCTION}
      [] k = "reconstructable" -> {R_RECONSTRUCTABLE}
      [] k = "summary_pass" -> {R_SUMMARY}
      [] k = "requested_lifecycle_match" -> {R_REQUESTED}
      [] k = "current_snapshot_exists" -> {R_SNAPSHOT_MISSING}
      [] k = "current_snapshot_managed" -> {R_SNAPSHOT_UNMANAGED, R_SNAPSHOT_MISSING}
      [] k = "decisiondb_identity_fields_no_unset" -> {R_UNSET}
      [] k = "supported_claims_have_evidence_refs" -> {R_CLAIMS}
      [] k = "evidence_hashes_match_raw" -> {R_EVIDENCE}
      [] OTHER -> {}

\* C9 as stated: allowed is true if and only if every value of the returned
\* checks map is true, and a false check has contributed an abort reason.
C9_AllowedIffAllChecks ==
    guard_result # <<>> =>
        LET r == guard_result[1]
        IN /\ r.allowed <=> (\A k \in DOMAIN r.checks : r.checks[k])
           /\ (\E k \in DOMAIN r.checks : ~ r.checks[k]) => r.reasons # <<>>

\* C9 as amended: allowed is true if and only if no abort reason was appended,
\* which is if and only if every check other than orphan_free,
\* override_enabled_if_needed and contract_active_in_registry is true and,
\* when orphan_count > 0, the override is enabled and the contract is active in
\* the registry; each of those other checks that is false has contributed an
\* abort reason.
C9_AllowedIffNoReason ==
    guard_result # <<>> =>
        LET r == guard_result[1]
        IN /\ DOMAIN r.checks
                = OtherChecks \cup {"orphan_free", "override_enabled_if_needed",
                                    "contract_active_in_registry"}
           /\ r.allowed <=> (r.reasons = <<>>)
           /\ r.allowed <=>
                 ( /\ \A k \in OtherChecks : r.checks[k]
                   /\ r.orphan_count > 0 =>
                         (r.override_enabled /\ r.checks.contract_active_in_registry) )
           /\ \A k \in OtherChecks :
                 ~ r.checks[k] => (ReasonsOf(k) \cap SeqRange(r.reasons)) # {}

\* the guard allowed although orphan_free is false: the override is engaged
\* and the contract is active in the registry
C9_Witness ==
    /\ guard_result # <<>>
    /\ guard_result[1].allowed
    /\ ~ guard_result[1].checks.orphan_free
    /\ guard_in[1].orphan_count > 0

\* the current contract is an active lifecycle_contract entry of the ledger
ContractRegistered ==
    \E i \in DOMAIN Entries :
        /\ Entries[i].status = "active"
        /\ Entries[i].kind = "lifecycle_contract"
        /\ Entries[i].artifact_path = CONTRACT_PATH
        /\ Entries[i].artifact_hash = canonical_text_hash(contract_text)
        /\ Entries[i].scope.lifecycle_id = contract_text.lifecycle_id

\* C10: the guard denies when orphan_count > 0 and the override is disabled,
\* denies when orphan_count > 0, the override is enabled and the current
\* contract is not an active registry entry, and allows when orphan_count is 0
\* and all other checks pass, whatever the override and the registry.
C10_OrphanGating ==
    guard_result # <<>> =>
        LET r == guard_result[1]
            in == guard_in[1]
        IN /\ (in.orphan_count > 0 /\ ~ contract_text.enabled) => ~ r.allowed
           /\ (in.orphan_count > 0 /\ contract_text.enabled /\ ~ ContractRegistered)
                 => ~ r.allowed
           /\ (in.orphan_count = 0 /\ \A k \in OtherChecks : r.checks[k]) => r.allowed

\* orphans, the override enabled, the contract not registered, every other
\* check passing: the guard denied
C10_Witness ==
    /\ guard_result # <<>>
    /\ guard_in[1].orphan_count > 0
    /\ contract_text.enabled
    /\ ~ ContractRegistered
    /\ \A k \in OtherChecks : guard_result[1].checks[k]
    /\ ~ guard_result[1].allowed

\* no orphans, every other check passing: the guard allowed with the override
\* enabled and the contract not registered
C10_AllowWitness ==
    /\ guard_result # <<>>
    /\ guard_in[1].orphan_count = 0
    /\ contract_text.enabled
    /\ ~ ContractRegistered
    /\ guard_result[1].allowed

(* ===================== guard and ledger: C11 ========================== *)

\* C11: an engaged orphan override is honoured only if the ledger holds an
\* entry that is active, of kind lifecycle_contract, at
\* .sst/lifecycle_contract.md, with the canonical-text hash of the contract as
\* it is now and the contract's lifecycle id in its scope; after any sequence
\* of contract edits and registration passes, an entry that is superseded, or
\* that records the hash of another contract text, does not satisfy the check.
C11_OverrideNeedsActiveContractEntry ==
    guard_result # <<>> =>
        LET r == guard_result[1]
            in == guard_in[1]
        IN /\ r.contract_hash = canonical_text_hash(contract_text)
           /\ r.checks.contract_active_in_registry <=> ContractRegistered
           /\ (in.orphan_count > 0 /\ r.override_enabled /\ r.allowed) => ContractRegistered
           /\ (\A i \in DOMAIN Entries :
                  \/ Entries[i].status = "superseded"
                  \/ Entries[i].artifact_hash # canonical_text_hash(contract_text))
                 => ~ r.checks.contract_active_in_registry

\* orphans, the override enabled, every other check passing; the ledger holds
\* the current contract's hash under the contract's lifecycle id, but in a
\* superseded entry (the contract was edited, registered and edited back): denied
C11_Witness ==
    /\ guard_result # <<>>
    /\ guard_in[1].orphan_count > 0
    /\ contract_text.enabled
    /\ \E i \in DOMAIN Entries :
          /\ Entries[i].status = "superseded"
          /\ Entries[i].kind = "lifecycle_contract"
          /\ Entries[i].artifact_path = CONTRACT_PATH
          /\ Entries[i].artifact_hash = canonical_text_hash(contract_text)
          /\ Entries[i].scope.lifecycle_id = contract_text.lifecycle_id
    /\ \A k \in OtherChecks : guard_result[1].checks[k]
    /\ ~ guard_result[1].allowed
    /\ R_CONTRACT_INACTIVE \in SeqRange(guard_result[1].reasons)

(* ==================== gate evaluator: C12 .. C16 ====================== *)

\* the registration tool ran and returned 0
RegistrationSucceeded == returncode = <<0>>

\* the guard process ran, printed its result, and the result allows
GuardAllowed == Len(guard_result) > 0 /\ get(guard_result[1], "allowed", FALSE)

\* the required canon files that do not exist
MissingCanonFiles ==
    { CANON_REQUIRED[i] : i \in DOMAIN CANON_REQUIRED } \ on_disk(present, registry_file)

\* C12: the exit code is a total function of the three step outcomes: 0 exactly
\* when registration succeeded, the guard allowed and no canon file is missing;
\* 1 exactly when registration failed; 2 exactly when registration succeeded
\* and the guard disallowed; 3 exactly when registration succeeded, the guard
\* allowed and a canon file is missing; it is 0 iff overall_pass is true.
C12_ExitCodeTotal ==
    gate.pc = "exited" =>
        LET code == gate.exit_code[1]
        IN /\ code \in {0, 1, 2, 3}
           /\ code = 0 <=> (RegistrationSucceeded /\ GuardAllowed /\ MissingCanonFiles = {})
           /\ code = 1 <=> ~ RegistrationSucceeded
           /\ code = 2 <=> (RegistrationSucceeded /\ ~ GuardAllowed)
           /\ code = 3 <=> (RegistrationSucceeded /\ GuardAllowed /\ MissingCanonFiles # {})
           /\ code = 0 <=> gate.data[1].overall_pass

\* the evaluator returned 3: registration passed and the guard allowed while a
\* canon file that neither of them reads is missing
C12_Witness ==
    /\ gate.pc = "exited"
    /\ gate.exit_code = <<3>>
    /\ RegistrationSucceeded
    /\ GuardAllowed
    /\ MissingCanonFiles # {}

\* the layout-completeness list of the report holds exactly the missing paths
LayoutListExact ==
    gate.pc \in {"built", "emitted", "exited"} =>
        /\ SeqRange(gate.canon[1].missing) = MissingCanonFiles
        /\ gate.data[1].canon_layout.missing = gate.canon[1].missing

\* C14: for every subset of the required canon files that is absent, no step
\* ends by an unhandled exception (the guard's evaluation returns a result
\* rather than raising when the run manifest, the lifecycle index, the
\* reconstruction check, the lifecycle contract or system/CURRENT is absent),
\* and the report's layout-completeness list holds exactly the missing paths.
C14_MissingCanonFilesReported ==
    /\ gate.guard_run # "crashed"
    /\ LayoutListExact

\* C15: whatever the outcome of the registration step and of the guard step,
\* the report has been built and emitted when the exit code is returned.
C15_ReportBeforeExit ==
    Len(gate.exit_code) > 0 =>
        /\ Len(gate.data) > 0
        /\ Len(gate.stdout) > 0
        /\ gate.stdout[1].overall_pass = gate.data[1].overall_pass
        /\ gate.args.report => gate.report_file = gate.data

\* the evaluator returned after the registration step timed out and the guard
\* printed something that is not JSON: the failing report was printed
C15_Witness ==
    /\ gate.pc = "exited"
    /\ gate.register_run = "timeout"
    /\ gate.guard_run = "invalid_json"
    /\ Len(gate.stdout) > 0
    /\ ~ gate.stdout[1].overall_pass

\* C16: in one run the registration step and the guard step are each started
\* exactly once, whatever fails; a timeout of the registration step makes the
\* registration outcome failed (exit code 1), a timeout of the guard step
\* makes the guard outcome not allowed.
C16_NoRetries ==
    /\ gate.register_starts = (IF gate.pc \in {"idle", "start"} THEN 0 ELSE 1)
    /\ gate.guard_starts = (IF gate.pc \in {"idle", "start", "registered"} THEN 0 ELSE 1)
    /\ gate.register_run = "timeout" =>
          /\ ~ gate.register[1].ok
          /\ Len(gate.data) > 0 => gate.data[1].summary.register_sst = "fail"
          /\ gate.pc = "exited" => gate.exit_code = <<1>>
    /\ gate.guard_run = "timeout" =>
          /\ ~ get(gate.guard[1].result, "allowed", FALSE)
          /\ Len(gate.data) > 0 => ~ gate.data[1].summary.lifecycle_guard_allowed
          /\ gate.pc = "exited" => gate.exit_code \in {<<1>>, <<2>>}

\* the evaluator returned after both steps timed out, each started once
C16_Witness ==
    /\ gate.pc = "exited"
    /\ gate.register_run = "timeout"
    /\ gate.guard_run = "timeout"
    /\ gate.register_starts = 1
    /\ gate.guard_starts = 1
    /\ gate.exit_code = <<1>>

(* ================= registration tool: C13, C17 ======================== *)

\* the positions of the files of a batch that parse_artifact rejects
Unparsable(files) ==
    { i \in DOMAIN files : parse_artifact(files[i], DefaultIdentity).raised }

\* C13: in a registration pass over a batch in which one artifact fails to
\* parse, that artifact is skipped, every other artifact of the batch is still
\* upserted and the registry is still persisted.
C13_ParseFailuresIsolated ==
    \A files \in FileBatches :
        LET out == register_sst_main(registry_file, files, DefaultIdentity, FALSE)
        IN Unparsable(files) # {} =>
              /\ ~ out.raised
              /\ out.file.exists
              /\ \A j \in (DOMAIN files) \ Unparsable(files) :
                    LET record == parse_artifact(files[j], DefaultIdentity).record[1]
                    IN \E i \in DOMAIN out.file.entries :
                          /\ out.file.entries[i].decision_id = decision_id(record)
                          /\ out.file.entries[i].artifact_hash = record.artifact_hash

\* C17: a --dry-run pass never writes: for every registry and every batch of
\* artifacts the persisted registry after the run equals the one before it,
\* the decision ids it reports are exactly those a real run on the same inputs
\* would create, and the tool returns exit code 0.
C17_DryRunNeverWrites ==
    \A files \in FileBatches :
        LET dry == register_sst_main(registry_file, files, DefaultIdentity, TRUE)
            real == register_sst_main(registry_file, files, DefaultIdentity, FALSE)
        IN /\ dry.file = registry_file
           /\ dry.created = real.created
           /\ dry.returncode = 0

\* the part of C17 that does not depend on how the run ends: nothing is
\* written, and the run reports what a real run would create
DryRunFrame ==
    \A files \in FileBatches :
        LET dry == register_sst_main(registry_file, files, DefaultIdentity, TRUE)
            real == register_sst_main(registry_file, files, DefaultIdentity, FALSE)
        IN /\ dry.file = registry_file
           /\ dry.created = real.created
           /\ dry.raised = real.raised
           /\ ~ dry.raised => dry.returncode = 0

(* ======================= evidence: C18, C19 =========================== *)

\* contents the raw file can be changed to
RawBytes == {"raw_v1", "raw_v2", "doc_v1", "doc_v2", "raw_text", "metrics_v1", "slice_v1"}

\* the record names the raw file, which exists
NamesRawFile(record, raw_files) ==
    record.raw_path \in DOMAIN raw_files /\ raw_files[record.raw_path].exists

\* the record as C18 builds it: the hash of the file's bytes, and the hash of
\* the canonical form of the value at its pointer
BuiltFromValueAtPointer(record, bytes) ==
    /\ record.raw_file_sha256 = sha256_hexdigest(bytes)
    /\ json_loads(bytes).ok
    /\ LET value == json_pointer_get(json_loads(bytes).value, record.json_pointer)
       IN value.ok /\ record.slice_sha256 = sha256_hexdigest(json_dumps(value.value))

\* the record as the check expects it: with a non-empty pointer as C18 builds
\* it, with an empty pointer the slice hash is the hash of the file's bytes
BuiltAsVerified(record, bytes) ==
    /\ record.raw_file_sha256 = sha256_hexdigest(bytes)
    /\ IF record.json_pointer # <<>>
       THEN BuiltFromValueAtPointer(record, bytes)
       ELSE record.slice_sha256 = sha256_hexdigest(bytes)

\* the record's id is in no violation of the result
Verifies(record, result) ==
    \A i \in DOMAIN result.evidence_hash_violations :
        result.evidence_hash_violations[i][1] # record.evidence_id

\* after any change of the raw file's bytes the record yields a violation
FailsAfterAnyChange(record, raw_files) ==
    \A b \in RawBytes \ {raw_files[record.raw_path].bytes} :
        evidence_violation(record, [raw_files EXCEPT ![record.raw_path].bytes = b]) # ""

\* C18 as stated: an evidence record whose raw_file_sha256 is the hash of the
\* raw file's bytes and whose slice_sha256 is the hash of the canonical form of
\* the value at its json_pointer verifies against that file with no violation,
\* and after any change of the file's bytes it yields a violation.
C18_EvidenceRoundTrip ==
    guard_result # <<>> =>
        LET index == guard_in[1].evidence.index
            raw_files == guard_in[1].evidence.raw_files
        IN \A i \in DOMAIN index.evidence :
              LET record == index.evidence[i]
              IN ( /\ NamesRawFile(record, raw_files)
                   /\ BuiltFromValueAtPointer(record, raw_files[record.raw_path].bytes) )
                 => /\ Verifies(record, guard_result[1])
                    /\ FailsAfterAnyChange(record, raw_files)

\* C18 as amended: an evidence record whose raw_file_sha256 is the hash of the
\* raw file's bytes and whose slice_sha256 is, when its json_pointer is not
\* empty, the hash of the canonical form of the value at that pointer and, when
\* its json_pointer is empty or absent, the hash of the raw file's bytes,
\* verifies against that file with no violation; after any change of the
\* file's bytes it yields a violation.
C18_EvidenceRoundTripByPointer ==
    guard_result # <<>> =>
        LET index == guard_in[1].evidence.index
            raw_files == guard_in[1].evidence.raw_files
        IN \A i \in DOMAIN index.evidence :
              LET record == index.evidence[i]
              IN ( /\ NamesRawFile(record, raw_files)
                   /\ BuiltAsVerified(record, raw_files[record.raw_path].bytes) )
                 => /\ Verifies(record, guard_result[1])
                    /\ FailsAfterAnyChange(record, raw_files)

\* a record built from the indented raw file and the pointer "/metrics/x" was
\* verified against that file: no violation, the guard allowed
C18_Witness ==
    /\ guard_result # <<>>
    /\ guard_result[1].allowed
    /\ guard_result[1].checks.evidence_hashes_match_raw
    /\ \E i \in DOMAIN guard_in[1].evidence.index.evidence :
          LET record == guard_in[1].evidence.index.evidence[i]
          IN /\ record.json_pointer = POINTER_METRICS_X
             /\ NamesRawFile(record, guard_in[1].evidence.raw_files)
             /\ guard_in[1].evidence.raw_files[record.raw_path].bytes = "raw_v1"
             /\ BuiltAsVerified(record, "raw_v1")

\* a record violates, in the words of C19
Violates(record, raw_files) ==
    \/ record.raw_path = ""
    \/ ContainsUNSET(record.raw_file_sha256)
    \/ ContainsUNSET(record.slice_sha256)
    \/ ~ NamesRawFile(record, raw_files)
    \/ LET bytes == raw_files[record.raw_path].bytes
       IN \/ record.raw_file_sha256 # sha256_hexdigest(bytes)
          \/ IF record.json_pointer # <<>>
             THEN \/ ~ json_loads(bytes).ok
                  \/ ~ json_pointer_get(json_loads(bytes).value, record.json_pointer).ok
                  \/ record.slice_sha256
                       # sha256_hexdigest(json_dumps(
                             json_pointer_get(json_loads(bytes).value, record.json_pointer).value))
             ELSE record.slice_sha256 # sha256_hexdigest(bytes)

\* every violating record's evidence id is in the violations list, and a false
\* evidence check makes the guard deny
ViolationsListedAndDenied(result, index, raw_files) ==
    /\ \A i \in DOMAIN index.evidence :
          Violates(index.evidence[i], raw_files) => ~ Verifies(index.evidence[i], result)
    /\ ~ result.checks.evidence_hashes_match_raw =>
          (~ result.allowed /\ R_EVIDENCE \in SeqRange(result.reasons))

\* C19 as stated: evidence_hashes_match_raw is true if and only if no evidence
\* record violates; each violating record's evidence id appears in the
\* violations list, and the guard then denies.
C19_EvidenceFailsClosed ==
    guard_result # <<>> =>
        LET index == guard_in[1].evidence.index
            raw_files == guard_in[1].evidence.raw_files
            result == guard_result[1]
        IN /\ result.checks.evidence_hashes_match_raw
                <=> (\A i \in DOMAIN index.evidence : ~ Violates(index.evidence[i], raw_files))
           /\ ViolationsListedAndDenied(result, index, raw_files)

\* C19 as amended: evidence_hashes_match_raw is true if and only if the
\* evidence index file exists and no evidence record violates (an absent index
\* makes the check false with the one violation "missing
\* .sst/evidence_index.json"); a record violates when its raw path is empty, a
\* declared hash contains the placeholder token, the raw file does not exist,
\* the declared raw-file hash differs from the recomputed one, the pointer
\* cannot be resolved, or the declared slice hash differs from the recomputed
\* one; each violating record's evidence id appears in the violations list,
\* and the guard then denies.
C19_EvidenceFailsClosedWithIndex ==
    guard_result # <<>> =>
        LET index == guard_in[1].evidence.index
            raw_files == guard_in[1].evidence.raw_files
            result == guard_result[1]
        IN /\ result.checks.evidence_hashes_match_raw
                <=> ( /\ index.exists
                      /\ \A i \in DOMAIN index.evidence :
                            ~ Violates(index.evidence[i], raw_files) )
           /\ ~ index.exists =>
                 result.evidence_hash_violations = << <<"", "missing .sst/evidence_index.json">> >>
           /\ ViolationsListedAndDenied(result, index, raw_files)

\* two records, the first with a slice hash that is not the recomputed one, the
\* second verifying: only the first id is listed, and the guard denied
C19_Witness ==
    /\ guard_result # <<>>
    /\ ~ guard_result[1].allowed
    /\ guard_result[1].evidence_hash_violations = << <<"e1", "slice_hash_mismatch">> >>
    /\ Len(guard_in[1].evidence.index.evidence) = 2

(* ==================== text canonicalization: C20 ====================== *)

\* a text document as it is read line by line: each line's content and the
\* line ending that closes it (CR LF read as one ending; "" closes the last line)
RECURSIVE ReadLines(_, _)
ReadLines(text, content) ==
    IF Len(text) = 0 THEN <<[content |-> content, ending |-> <<>>]>>
    ELSE IF startswith(text, <<"\r", "\n">>)
         THEN <<[content |-> content, ending |-> <<"\r", "\n">>]>>
              \o ReadLines(SubSeq(text, 3, Len(text)), <<>>)
    ELSE IF Head(text) \in {"\r", "\n"}
         THEN <<[content |-> content, ending |-> <<Head(text)>>]>>
              \o ReadLines(Tail(text), <<>>)
    ELSE ReadLines(Tail(text), Append(content, Head(text)))

LinesOf(text) == ReadLines(text, <<>>)

\* the spaces and tabs at the end of a line's content
RECURSIVE TrailingBlanks(_)
TrailingBlanks(content) ==
    IF Len(content) > 0 /\ content[Len(content)] \in {" ", "\t"}
    THEN 1 + TrailingBlanks(SubSeq(content, 1, Len(content) - 1))
    ELSE 0

Visible(content) == SubSeq(content, 1, Len(content) - TrailingBlanks(content))

\* the two documents have the same lines with the same line endings, and differ
\* at most in the spaces and tabs at the end of lines
DifferOnlyInTrailingWhitespace(t, u) ==
    LET lt == LinesOf(t)
        lu == LinesOf(u)
    IN /\ Len(lt) = Len(lu)
       /\ \A i \in 1..Len(lt) :
            /\ lt[i].ending = lu[i].ending
            /\ Visible(lt[i].content) = Visible(lu[i].content)

\* the two documents have the same lines, and differ at most in which of
\* CR LF, CR and LF closes each line
DifferOnlyInLineEndings(t, u) ==
    LET lt == LinesOf(t)
        lu == LinesOf(u)
    IN /\ Len(lt) = Len(lu)
       /\ \A i \in 1..Len(lt) : lt[i].content = lu[i].content

\* C20: two text documents that differ only in the whitespace at the end of
\* lines, or only in using CR LF or CR instead of LF as line ending, have the
\* same canonical bytes, and canonicalizing canonical bytes returns them
\* unchanged.
C20_TextCanonicalizationStable ==
    canonical # <<>> =>
        /\ DifferOnlyInTrailingWhitespace(texts[1], texts[2]) => canonical[1] = canonical[2]
        /\ DifferOnlyInLineEndings(texts[1], texts[2]) => canonical[1] = canonical[2]
        /\ \A i \in 1..2 : canonical_text_bytes(decode_utf8(canonical[i])) = canonical[i]

\* two different documents with a letter, a line ending and trailing whitespace
\* between them, differing only in that whitespace or only in the line endings,
\* were canonicalized to the same bytes, which differ from the first document
C20_Witness ==
    /\ canonical # <<>>
    /\ texts[1] # texts[2]
    /\ \E k \in 1..2 : \E c \in {"\r", "\n"} : c \in { texts[k][i] : i \in 1..Len(texts[k]) }
    /\ \E k \in 1..2 : \E c \in {" ", "\t"} : c \in { texts[k][i] : i \in 1..Len(texts[k]) }
    /\ \E k \in 1..2 : \E i \in 1..Len(texts[k]) : texts[k][i] = "a"
    /\ \/ DifferOnlyInTrailingWhitespace(texts[1], texts[2])
       \/ DifferOnlyInLineEndings(texts[1], texts[2])
    /\ canonical[1] = canonical[2]
    /\ decode_utf8(canonical[1]) # texts[1]

(* ================== blank lines at the ends: C21 ====================== *)

\* a line with nothing but spaces and tabs
IsBlankLine(line) == Visible(line.content) = <<>>

\* the lines of a document without the blank lines at its start
RECURSIVE DropLeadingBlank(_)
DropLeadingBlank(lines) ==
    IF Len(lines) > 0 /\ IsBlankLine(lines[1]) THEN DropLeadingBlank(Tail(lines)) ELSE lines

\* the lines of a document without the blank lines at its end
RECURSIVE DropTrailingBlank(_)
DropTrailingBlank(lines) ==
    IF Len(lines) > 0 /\ IsBlankLine(lines[Len(lines)])
    THEN DropTrailingBlank(SubSeq(lines, 1, Len(lines) - 1))
    ELSE lines

\* the lines between the blank lines at the start and at the end
CoreLines(text) == DropTrailingBlank(DropLeadingBlank(LinesOf(text)))

\* the two documents have the same lines between their leading and trailing
\* blank lines, closed by the same line endings (the ending of the last of
\* these lines aside, which is there only when a blank line follows)
DifferOnlyInOuterBlankLines(t, u) ==
    LET ct == CoreLines(t)
        cu == CoreLines(u)
    IN /\ Len(ct) = Len(cu)
       /\ \A i \in 1..Len(ct) : ct[i].content = cu[i].content
       /\ \A i \in 1..(Len(ct) - 1) : ct[i].ending = cu[i].ending

\* C21: two text documents that differ only by blank lines added or removed at
\* the start or at the end of the document have the same canonical bytes.
C21_OuterBlankLinesIgnored ==
    canonical # <<>> =>
        (DifferOnlyInOuterBlankLines(texts[1], texts[2]) => canonical[1] = canonical[2])

(* ===================== identity validation: C22 ======================= *)

\* the artifact's identity fields laid over the defaults: <<value>> for a key
\* that one of them has, the artifact's value first, and <<>> for a key neither has
Overlaid(key) ==
    IF key \in DOMAIN call_args.identity THEN <<call_args.identity[key]>>
    ELSE IF key \in DOMAIN call_args.defaults THEN <<call_args.defaults[key]>>
    ELSE <<>>

\* an empty value: the empty string, null or zero
IsEmptyValue(v) == v \in {JsonStr(""), JsonNull, JsonInt("0")}

\* the required keys that are missing or empty after the overlay
MissingOrEmpty ==
    { key \in REQUIRED_IDENTITY_KEYS : Overlaid(key) = <<>> \/ IsEmptyValue(Overlaid(key)[1]) }

\* C22: canonical_identity succeeds exactly when, after the artifact's identity
\* fields are laid over the defaults, every required key has a non-empty value;
\* the result then has exactly the four required keys, each with a non-empty
\* string; otherwise the error names exactly the keys that are missing or empty.
C22_IdentityValidation ==
    call_result # <<>> =>
        LET r == call_result[1]
        IN /\ r.raised <=> MissingOrEmpty # {}
           /\ r.raised => r.missing = MissingOrEmpty
           /\ ~ r.raised =>
                /\ DOMAIN r.value[1] = REQUIRED_IDENTITY_KEYS
                /\ \A key \in REQUIRED_IDENTITY_KEYS :
                      /\ r.value[1][key] \in {"x1", "d1", "7"}
                      /\ r.value[1][key] = Overlaid(key)[1].text

\* the artifact blanks a key for which the manifest has a value, and the error
\* names that key alone
C22_Witness ==
    /\ call_result # <<>>
    /\ "params_hash" \in DOMAIN call_args.identity
    /\ call_args.identity["params_hash"] = JsonStr("")
    /\ "params_hash" \in DOMAIN call_args.defaults
    /\ call_args.defaults["params_hash"] = JsonStr("d1")
    /\ call_result[1].raised
    /\ call_result[1].missing = {"params_hash"}

\* the call succeeds with a value of the artifact, a default and a number
C22_SuccessWitness ==
    /\ call_result # <<>>
    /\ ~ call_result[1].raised
    /\ call_result[1].value[1]["repo_commit"] = "7"
    /\ call_result[1].value[1]["params_hash"] = "x1"
    /\ call_result[1].value[1]["graph_hash"] = "d1"

(* ======================= collector filter: C23 ======================== *)

\* the exclusion globs in force: those of the config file, or the default
ConfiguredGlobs == load_config(call_args.config_file).exclude_globs

Returned == { call_result[1].artifacts[i] : i \in 1..Len(call_result[1].artifacts) }

\* the path, with "\" read as "/", matches one of the exclusion globs
MatchesExclusion(path) ==
    \E i \in 1..Len(ConfiguredGlobs) : fnmatch(replace_backslashes(path), ConfiguredGlobs[i])

\* an existing regular file with a supported suffix that no exclusion glob matches
Eligible(path) ==
    /\ path \in call_args.fs
    /\ path[Len(path)] \in {".json", ".md"}
    /\ ~ MatchesExclusion(path)

UnderSst(path) == Len(path) > 2 /\ SubSeq(path, 1, 2) = <<".sst", "/">>

UnderSstTools(path) == Len(path) > 4 /\ SubSeq(path, 1, 4) = <<".sst", "/", "tools", "/">>

DiscoveryMode ==
    /\ ~ load_config(call_args.config_file).raised
    /\ load_config(call_args.config_file).known_artifacts = <<>>

\* C23: every collected path is an existing regular file with suffix .json or
\* .md that no configured exclusion glob matches; with an empty allow-list every
\* such file under .sst is collected; with no config file nothing under
\* .sst/tools/ is collected.
C23_CollectorFilter ==
    (call_result # <<>> /\ ~ call_result[1].raised) =>
        /\ \A path \in Returned : Eligible(path)
        /\ DiscoveryMode =>
              \A path \in call_args.fs : (UnderSst(path) /\ Eligible(path)) => path \in Returned
        /\ call_args.config_file = <<>> => \A path \in Returned : ~ UnderSstTools(path)

\* discovery with no config file over a checkout that has artifacts, a file
\* under .sst/tools and a file whose name holds a backslash
C23_Witness ==
    /\ call_result # <<>>
    /\ call_args.config_file = <<>>
    /\ {A_JSON, PAPER1_B_MD, D_JSON_B_MD, TOOLS_A_JSON, TOOLS_BACKSLASH_A_JSON, C_PY}
          \subseteq call_args.fs
    /\ call_result[1].artifacts = <<A_JSON, D_JSON_B_MD, PAPER1_B_MD>>

\* an allow-list that names a file under .sst/tools and a file outside .sst
C23_AllowListWitness ==
    /\ call_result # <<>>
    /\ Len(call_args.config_file) = 1
    /\ call_result[1].artifacts = <<README_MD>>
    /\ TOOLS_A_JSON \in call_args.fs


(* ====================== invalid ledger: C24 =========================== *)

\* the empty registry load_registry returns for an absent file
EmptyRegistry == [schema_version |-> "1.0", entries |-> <<>>]

\* the registry file exists and its `entries` is an object, null or absent, or
\* the file is not JSON at all
HoldsNoEntriesList ==
    /\ registry_file.exists
    /\ "format" \in DOMAIN registry_file
    /\ registry_file.format \in {"entries_object", "entries_null", "entries_absent", "not_json"}

\* C24: when the registry file exists and does not hold a list of entries,
\* load_registry raises and the pass ends with no upsert and no write: the file
\* is unchanged and no decision id is reported; when the file does not exist,
\* load_registry returns an empty registry with a schema version and no entries.
C24_InvalidLedgerRejected ==
    [][ /\ HoldsNoEntriesList =>
            /\ call_result'[1].raised
            /\ registry_file' = registry_file
            /\ created' = <<>>
            /\ op' = "raised"
            /\ returncode' = <<1>>
        /\ ~ registry_file.exists =>
            /\ ~ call_result'[1].raised
            /\ call_result'[1].registry = <<EmptyRegistry>> ]_vars

\* a pass over a registry file whose entries are an object was aborted
C24_Witness ==
    /\ op = "raised"
    /\ registry_file.exists
    /\ registry_format(registry_file) = "entries_object"
    /\ call_result # <<>>
    /\ call_result[1].raised
    /\ created = <<>>

\* a pass with no registry file loaded the empty registry and wrote a ledger
C24_AbsentWitness ==
    /\ op = "run"
    /\ call_result = <<[raised |-> FALSE, registry |-> <<EmptyRegistry>>]>>
    /\ registry_file.exists
    /\ Len(registry_file.entries) > 0


(* ============ the two text canonicalizations agree: C25 =============== *)

\* C25: for every text, the hash the guard computes with canonical_text_hash is
\* the hash the registration tool computes from canonical_text_bytes.
C25_TextHashesAgree ==
    canonical # <<>> =>
        \A i \in 1..2 : guard_canonical_text_hash(texts[i]) = sha256_hex(canonical[i])

\* a text with a lone CR and a CR LF and a text with a trailing space were
\* hashed, and their hashes are not the hashes of their own bytes
C25_Witness ==
    /\ canonical # <<>>
    /\ texts[1] = <<"\r", "\r", "\n">>
    /\ texts[2] = <<"a", " ", "\r">>
    /\ sha256_hex(canonical[1]) = <<"0", "a", "0", "a">>
    /\ sha256_hex(canonical[2]) = <<"6", "1", "0", "a">>
    /\ \A i \in 1..2 : sha256_hex(canonical[i]) # sha256_hex(encode_utf8(texts[i]))


(* ================ back links, frame and slots: C26 .. C28 ============= *)

\* C26: in every registry reachable from the empty one by upserts, every
\* decision id in an entry's supersedes list is the decision id of a superseded
\* entry of the same triple, and every superseded entry is listed in the
\* supersedes list of some entry.
C26_BackLinkIntegrity ==
    /\ \A i \in DOMAIN Entries : \A id \in SeqRange(Entries[i].supersedes) :
          \E j \in DOMAIN Entries :
             /\ Entries[j].decision_id = id
             /\ Entries[j].status = "superseded"
             /\ Triple(Entries[j]) = Triple(Entries[i])
    /\ \A j \in DOMAIN Entries :
          Entries[j].status = "superseded" =>
             \E i \in DOMAIN Entries : Entries[j].decision_id \in SeqRange(Entries[i].supersedes)

\* a superseded entry that itself superseded an entry: a chain of two links
C26_Witness ==
    \E i, j \in DOMAIN Entries :
        /\ Entries[i].status = "active"
        /\ Entries[j].status = "superseded"
        /\ Entries[j].supersedes # <<>>
        /\ Entries[j].decision_id \in SeqRange(Entries[i].supersedes)

\* C27: the upsert of a record leaves every entry of another triple as it was,
\* adds no entry to another triple, and leaves the superseded entries of the
\* record's own triple as they were.
C27_UpsertFrame ==
    [][ LET old == load_registry(registry_file)
            new == load_registry(registry_file')
            record == call_result'[1]
        IN /\ \A e \in SeqRange(old) \cup SeqRange(new) :
                 Triple(e) # slot_of(record) =>
                    Count(new, LAMBDA x : x = e) = Count(old, LAMBDA x : x = e)
           /\ \A e \in SeqRange(old) :
                 (Triple(e) = slot_of(record) /\ e.status = "superseded") =>
                    Count(new, LAMBDA x : x = e) >= Count(old, LAMBDA x : x = e) ]_vars

\* a record has just superseded the active entry of its triple while another
\* triple holds an active entry and its own triple an older superseded one
C27_Witness ==
    /\ call_result # <<>>
    /\ created # <<>>
    /\ \E i \in DOMAIN Entries :
          /\ Triple(Entries[i]) # slot_of(call_result[1])
          /\ Entries[i].status = "active"
    /\ \E i \in DOMAIN Entries :
          /\ Triple(Entries[i]) = slot_of(call_result[1])
          /\ Entries[i].status = "superseded"

\* C28: in every registry reachable from the empty one by upserts, each triple
\* that has an entry has exactly one active entry, and that entry carries the
\* artifact_hash of the record upserted last for the triple.
C28_SlotKeepsActiveEntry ==
    \A s \in Slots :
        (\E i \in DOMAIN Entries : Triple(Entries[i]) = s) =>
            /\ Cardinality(ActiveOf(Entries, s)) = 1
            /\ call_args[s] # <<>>
            /\ \A i \in ActiveOf(Entries, s) : Entries[i].artifact_hash = call_args[s][1]

\* a triple went from one content to another and back: its active entry
\* carries the first hash again, beside two superseded entries
C28_Witness ==
    \E s \in Slots :
        /\ Cardinality({ i \in DOMAIN Entries : Triple(Entries[i]) = s }) = 3
        /\ \E i \in ActiveOf(Entries, s), j \in DOMAIN Entries :
              /\ i # j
              /\ Entries[j].status = "superseded"
              /\ Entries[j].artifact_hash = Entries[i].artifact_hash


(* ================= the evaluator's steps: C29 and C30 ================= *)

\* how a subprocess step of main() can have ended
Terminated == {"completed", "timeout", "launch_error"}

\* C29: the guard step starts only when the registration step has been started
\* once and has ended (the tool exited, or subprocess.run ended it at the
\* timeout or could not start it), and the canon layout is checked only when
\* both steps have ended.
C29_StepsInOrder ==
    [][ /\ gate'.guard_starts # gate.guard_starts =>
              /\ gate.register_starts = 1
              /\ gate.register_run \in Terminated
              /\ gate.register # <<>>
              /\ registry_file' = registry_file
        /\ gate'.register_starts # gate.register_starts => gate.guard_starts = 0
        /\ gate'.canon # gate.canon =>
              /\ gate.register_run \in Terminated
              /\ gate.guard_run # ""
              /\ gate.register_starts = 1
              /\ gate.guard_starts = 1 ]_vars

\* the layout was checked after a registration that wrote the registry and a
\* guard that read it
C29_Witness ==
    /\ gate.canon # <<>>
    /\ gate.register_run = "completed"
    /\ registry_file.exists
    /\ gate.guard_run = "completed"

\* the guard process printed a JSON object whose "allowed" member is true
GuardPrintedAllowed ==
    /\ gate.guard_run = "completed"
    /\ guard_result # <<>>
    /\ "allowed" \in DOMAIN guard_result[1]
    /\ guard_result[1].allowed = TRUE

\* C30: the report's overall_pass is true, and the exit code is 0, only if the
\* guard process printed a JSON object whose "allowed" is true; a guard that
\* crashed, printed nothing, printed no JSON, left "allowed" out or ran into the
\* timeout gives overall_pass false and an exit code other than 0.
C30_FailsClosedOnGuard ==
    /\ (gate.data # <<>> /\ gate.data[1].overall_pass) => GuardPrintedAllowed
    /\ gate.exit_code = <<0>> => GuardPrintedAllowed
    /\ (gate.guard_run \in {"crashed", "invalid_json", "omits_allowed", "timeout", "launch_error"}) =>
          /\ gate.data # <<>> => ~ gate.data[1].overall_pass
          /\ gate.exit_code # <<0>>

\* registration passed and the layout is complete, the guard timed out: exit 2
C30_Witness ==
    /\ gate.pc = "exited"
    /\ gate.guard_run = "timeout"
    /\ gate.register[1].ok
    /\ gate.canon[1].ok
    /\ ~ gate.data[1].overall_pass
    /\ gate.exit_code = <<2>>

\* the same with a guard whose JSON object has no "allowed" member
C30_OmitsWitness ==
    /\ gate.pc = "exited"
    /\ gate.guard_run = "omits_allowed"
    /\ gate.register[1].ok
    /\ gate.canon[1].ok
    /\ ~ gate.data[1].overall_pass
    /\ gate.exit_code = <<2>>

\* the same with a guard that crashed and printed nothing
C30_CrashWitness ==
    /\ gate.pc = "exited"
    /\ gate.guard_run = "crashed"
    /\ gate.register[1].ok
    /\ ~ gate.data[1].overall_pass
    /\ gate.exit_code = <<2>>

\* every gate passed: exit 0
C30_PassWitness ==
    /\ gate.pc = "exited"
    /\ GuardPrintedAllowed
    /\ gate.data[1].overall_pass
    /\ gate.exit_code = <<0>>

====
